---- MODULE Spec2Model ----
(***************************************************************************)
(* A model of PlasmoHQ/storage (src/src/index.ts, lines 1-472): the       *)
(* BaseStorage / Storage classes.  Two parts share one state:              *)
(*   - the change-notification multiplexer (watch, unwatch, unwatchAll,    *)
(*     the per-key chromeStorageListener and its asynchronous dispatch);   *)
(*   - the dual-backend key/value store (set, get, getAll, remove, ...),    *)
(*     alone (SpecStore) and as namespaced instances sharing one area      *)
(*     (SpecArea).                                                         *)
(* SpecQuota models set of the quota-checking revision of the store        *)
(* (src/unnamed/part_007), SpecUnlimited that of the revision with the     *)
(* unlimited option (src/unnamed/part_006), SpecCopy the store with copy,  *)
(* SpecSecure the SecureStorage subclass (src/src/secure.ts) and SpecHook  *)
(* the useStorage hook (src/unnamed/part_002) on an instance of the store. *)
(* SpecMirror changes the list of copied keys, SpecBytes applies the       *)
(* byte-length function to strings of code units.  Three specifications    *)
(* split a call at its await: SpecRace the set of the quota-checking       *)
(* revision, SpecPassword setPassword, SpecOrder the decoding of change    *)
(* events by a SecureStorage instance.                                     *)
(* JavaScript objects with identity (Set objects, listener closures) are   *)
(* numbered; strings are sequences of one-character strings, so that key   *)
(* namespacing and the JSON codec are computed, not assumed.               *)
(***************************************************************************)
EXTENDS Integers, Sequences, FiniteSets, TLC

\* ------------------------------------------------------------------ bounds

\* listeners one instance may have installed in chrome.storage.onChanged
MaxListeners == 2
\* platform change events whose dispatch (Promise.all(...).then) is pending
MaxInFlight == 1

\* logical keys, namespaces, areas and callback identities the model draws from
Keys == {<<"k">>, <<"j">>}
Namespaces == {<< >>, <<"n">>}
Areas == {"sync", "local"}
Callbacks == {"cb1", "cb2"}

\* ------------------------------------------------------- JavaScript values

Undefined == [t |-> "undefined", v |-> << >>]
Null == [t |-> "null", v |-> << >>]
Str(s) == [t |-> "string", v |-> s]
Num(d) == [t |-> "number", v |-> d]
NaN == Num(<<"N", "a", "N">>)

Quote == "\""
Digits == {"0", "1", "2", "3", "4", "5", "6", "7", "8", "9"}
NullText == <<"n", "u", "l", "l">>

\* JSON.stringify on the values of the model: a string is quoted, a finite
\* number is printed, NaN and null both print as null, undefined has no text.
JSONstringify(x) ==
  CASE x.t = "string" -> Str(<<Quote>> \o x.v \o <<Quote>>)
    [] x.t = "number" -> IF x = NaN THEN Str(NullText) ELSE Str(x.v)
    [] x.t = "null" -> Str(NullText)
    [] OTHER -> Undefined

\* ToString, the coercion JSON.parse applies to its argument
JSToString(x) ==
  CASE x.t = "undefined" -> <<"u", "n", "d", "e", "f", "i", "n", "e", "d">>
    [] x.t = "null" -> NullText
    [] OTHER -> x.v

\* a JSON.parse that accepts every text and hands it back as a string
JSONparseLenient(x) == [ok |-> TRUE, value |-> Str(JSToString(x))]

\* JSON.parse: [ok |-> FALSE] stands for the SyntaxError it throws
JSONparse(x) ==
  LET s == JSToString(x)
      n == Len(s)
  IN  IF s = NullText THEN [ok |-> TRUE, value |-> Null]
      ELSE IF n >= 2 /\ s[1] = Quote /\ s[n] = Quote
                     /\ \A i \in 2..(n - 1) : s[i] # Quote
        THEN [ok |-> TRUE, value |-> Str(SubSeq(s, 2, n - 1))]
      ELSE IF n >= 1 /\ \A i \in 1..n : s[i] \in Digits
        THEN [ok |-> TRUE, value |-> Num(s)]
      ELSE [ok |-> FALSE, value |-> Undefined]

\* serde = { serializer: JSON.stringify, deserializer: JSON.parse }
serializer(x) == JSONstringify(x)
deserializer(raw) == JSONparse(raw)

\* a parseValue that hands the stored string back undecoded
parseValueRaw(rawValue) == rawValue

\* Storage.parseValue: undefined stays undefined, a decode error is swallowed
parseValue(rawValue) ==
  IF rawValue # Undefined /\ deserializer(rawValue).ok
    THEN deserializer(rawValue).value
    ELSE Undefined

\* ------------------------------------------------------------------- state

VARIABLES
  area,          \* #area, fixed at construction
  hasExt,        \* hasExtensionApi: chrome.storage / browser.storage exists
  hasWebApi,     \* hasWebApi: window.localStorage exists
  allCopied,     \* #allCopied
  copiedKeySet,  \* #copiedKeySet
  secondaryClient, \* #secondaryClient was assigned window.localStorage
  secretSet,     \* #secretSet of the quota-checking revision
  unlimited,     \* the unlimited option the store was constructed with
  shouldCheckQuota, \* #shouldCheckQuota of the revision with that option
  quotaBytes,    \* QUOTA_BYTES of the area, where set calls run concurrently
  inflight,      \* the asynchronous calls waiting at an await, oldest first
  keyNamespace,  \* keyNamespace, set by setNamespace
  primary,       \* the entries of the primary client's area: key -> string
  secondary,     \* the entries of window.localStorage: key -> string
  written,       \* nsKey -> the value last set under it, not written since
  writer,        \* nsKey -> the namespace its entry was last set under
  watchMap,      \* #watchMap: nsKey -> [callbackSet: Set object, listener: closure]
  callbackSets,  \* the live Set objects: id -> set of callbacks
  onChanged,     \* listeners installed in onChanged: closure id -> its nsKey
  pending,       \* per in-flight event: the listener runs waiting in
                 \* Promise.all([...]).then(...), and what it has called
  unwatched,     \* <<nsKey, cb>> unwatched and not registered again since
  passwordKey,   \* #passwordKey of SecureStorage: the password, or Undefined
  saltSize,      \* #saltSize
  ivSize,        \* #ivSize
  emptyIvAccepted, \* the platform's AES-GCM takes an iv of no bytes
  keyParams,     \* the sizes given to the setPassword that imported the key
  isMounted,     \* isMounted.current of the useStorage hook
  onInit,        \* the onInit the hook is rendered with: a value or a function
  hookKey,       \* the key of the hook's latest render
  renderValue,   \* the hook's render state
  watchConfig,   \* the callbackMap the hook's effect closed over
  memoKey,       \* the key the memoized setStoreValue closed over
  getting,       \* the get(key) of the effect, not settled yet
  persisting,    \* the persistValue calls waiting for their write to settle
  hookEvents,    \* change events on their way to the listeners
  trace          \* what the last step did and returned

vars == <<area, hasExt, hasWebApi, allCopied, copiedKeySet, secondaryClient,
          secretSet, unlimited, shouldCheckQuota, quotaBytes, inflight,
          keyParams, keyNamespace, primary,
          secondary, written, writer, watchMap, callbackSets, onChanged,
          pending, unwatched, passwordKey, saltSize, ivSize,
          emptyIvAccepted, isMounted, onInit, hookKey, renderValue,
          watchConfig, memoKey, getting, persisting, hookEvents, trace>>

config == <<area, hasExt, hasWebApi, allCopied, copiedKeySet, secondaryClient,
            secretSet, unlimited, shouldCheckQuota, quotaBytes>>
secureVars == <<passwordKey, saltSize, ivSize, emptyIvAccepted, keyParams>>
hookVars == <<isMounted, onInit, hookKey, renderValue, watchConfig, memoKey,
              getting, persisting, hookEvents>>
storeVars == <<primary, secondary, written, writer>>
watchVars == <<watchMap, callbackSets, onChanged>>

\* ---------------------------------------------------------------- namespacer

\* a getNamespacedKey that leaves the namespace out
getNamespacedKeyBare(key) == key

getNamespacedKey(key) == keyNamespace \o key
\* an isValidKey that accepts every key of the area
isValidKeyAny(nsKey) == TRUE

isValidKey(nsKey) ==
  /\ Len(nsKey) >= Len(keyNamespace)
  /\ SubSeq(nsKey, 1, Len(keyNamespace)) = keyNamespace
\* a getUnnamespacedKey that strips nothing
getUnnamespacedKeyWhole(nsKey) == nsKey

getUnnamespacedKey(nsKey) == SubSeq(nsKey, Len(keyNamespace) + 1, Len(nsKey))

AllNsKeys == {ns \o key : ns \in Namespaces, key \in Keys}

\* a callbackMap: some keys, one callback each; the key j is only ever given
\* the second callback
CallbackMaps ==
  {m \in UNION {[S -> Callbacks] : S \in SUBSET Keys} :
     <<"j">> \in DOMAIN m => m[<<"j">>] = "cb2"}

EmptyMap == [x \in {} |-> x]

\* least unused object number
Fresh(used) == CHOOSE i \in 1..(Cardinality(used) + 1) : i \notin used

\* Set objects still reachable: from the watch map or from a pending dispatch
LiveSets(wm, pend) ==
  {wm[k].callbackSet : k \in DOMAIN wm} \cup {pend[e].comms : e \in DOMAIN pend}

\* unreachable Set objects are collected
Collect(sets, wm, pend) == [i \in (DOMAIN sets) \cap LiveSets(wm, pend) |-> sets[i]]

\* ------------------------------------------- change-notification multiplexer

\* one iteration of the loop of #addListener, on w = [watchMap, callbackSets,
\* onChanged]: the callback joins the key's Set (a new Set when the key has no
\* entry); unless the Set then holds more than one callback, a new
\* chromeStorageListener closure is installed and recorded in the watch map.
addListenerKey(w, cbKey, callback) ==
  LET nsKey == getNamespacedKey(cbKey)
      known == nsKey \in DOMAIN w.watchMap
      sid == IF known THEN w.watchMap[nsKey].callbackSet
                      ELSE Fresh(DOMAIN w.callbackSets)
      sets == IF known
                THEN [w.callbackSets EXCEPT ![sid] = @ \cup {callback}]
                ELSE w.callbackSets @@ (sid :> {callback})
      lid == Fresh(DOMAIN w.onChanged)
  IN  IF Cardinality(sets[sid]) > 1
        THEN [w EXCEPT !.callbackSets = sets]
        ELSE [watchMap |-> [k \in (DOMAIN w.watchMap) \cup {nsKey} |->
                              IF k = nsKey
                                THEN [callbackSet |-> sid, listener |-> lid]
                                ELSE w.watchMap[k]],
              callbackSets |-> sets,
              onChanged |-> w.onChanged @@ (lid :> nsKey)]

RECURSIVE addListenerLoop(_, _, _)
addListenerLoop(w, callbackMap, todo) ==
  IF todo = {} THEN w
  ELSE LET cbKey == CHOOSE x \in todo : TRUE
       IN  addListenerLoop(addListenerKey(w, cbKey, callbackMap[cbKey]),
                           callbackMap, todo \ {cbKey})

addListener(w, callbackMap) == addListenerLoop(w, callbackMap, DOMAIN callbackMap)

\* #removeListener without the size check: the entry and its listener go
\* whenever the key has an entry
removeListenerKeyEager(w, cbKey, callback) ==
  LET nsKey == getNamespacedKey(cbKey)
  IN  IF nsKey \notin DOMAIN w.watchMap THEN w
      ELSE [watchMap |-> [k \in (DOMAIN w.watchMap) \ {nsKey} |-> w.watchMap[k]],
            callbackSets |-> [w.callbackSets EXCEPT
                                ![w.watchMap[nsKey].callbackSet] = @ \ {callback}],
            onChanged |-> [l \in (DOMAIN w.onChanged)
                                   \ {w.watchMap[nsKey].listener} |->
                             w.onChanged[l]]]

\* #removeListener whose delete matches no callback
removeListenerKeyKeep(w, cbKey, callback) == w

\* one iteration of the loop of #removeListener: the callback leaves the key's
\* Set by identity; when the Set is then empty the entry and its listener go.
removeListenerKey(w, cbKey, callback) ==
  LET nsKey == getNamespacedKey(cbKey)
  IN  IF nsKey \notin DOMAIN w.watchMap THEN w
      ELSE LET storageComms == w.watchMap[nsKey]
               sid == storageComms.callbackSet
               sets == [w.callbackSets EXCEPT ![sid] = @ \ {callback}]
           IN  IF sets[sid] = {}
                 THEN [watchMap |-> [k \in (DOMAIN w.watchMap) \ {nsKey} |->
                                       w.watchMap[k]],
                       callbackSets |-> sets,
                       onChanged |-> [l \in (DOMAIN w.onChanged)
                                              \ {storageComms.listener} |->
                                        w.onChanged[l]]]
                 ELSE [w EXCEPT !.callbackSets = sets]

RECURSIVE removeListenerLoop(_, _, _)
removeListenerLoop(w, callbackMap, todo) ==
  IF todo = {} THEN w
  ELSE LET cbKey == CHOOSE x \in todo : TRUE
       IN  removeListenerLoop(removeListenerKey(w, cbKey, callbackMap[cbKey]),
                              callbackMap, todo \ {cbKey})

removeListener(w, callbackMap) ==
  removeListenerLoop(w, callbackMap, DOMAIN callbackMap)

\* #removeAllListener: every listener the watch map records is removed from
\* onChanged and the map is cleared (the Set objects are left as they are)
removeAllListener(w) ==
  [watchMap |-> EmptyMap,
   callbackSets |-> w.callbackSets,
   onChanged |-> [l \in (DOMAIN w.onChanged)
                          \ {w.watchMap[k].listener : k \in DOMAIN w.watchMap} |->
                    w.onChanged[l]]]

isWatchSupported == hasExt

Current == [watchMap |-> watchMap, callbackSets |-> callbackSets,
            onChanged |-> onChanged]

\* the namespaced keys and the <<nsKey, callback>> pairs a callbackMap names
NsKeysOf(callbackMap) == {getNamespacedKey(k) : k \in DOMAIN callbackMap}
PairsOf(callbackMap) ==
  {<<getNamespacedKey(k), callbackMap[k]>> : k \in DOMAIN callbackMap}
NamedFor(nsKey, callbackMap) ==
  {c \in Callbacks : <<nsKey, c>> \in PairsOf(callbackMap)}

\* the keys whose last callback unwatch(callbackMap) removes
Emptied(callbackMap) ==
  {k \in NsKeysOf(callbackMap) \cap DOMAIN watchMap :
     callbackSets[watchMap[k].callbackSet] \subseteq NamedFor(k, callbackMap)}

\* no callback the callbackMap names is, by identity, in its key's Set
Mismatch(callbackMap) ==
  \A k \in NsKeysOf(callbackMap) \cap DOMAIN watchMap :
    callbackSets[watchMap[k].callbackSet] \cap NamedFor(k, callbackMap) = {}

Install(w) ==
  /\ watchMap' = w.watchMap
  /\ onChanged' = w.onChanged
  /\ callbackSets' = Collect(w.callbackSets, w.watchMap, pending')

\* watch(callbackMap)
Watch(callbackMap) ==
  /\ Cardinality(DOMAIN addListener(Current, callbackMap).onChanged) <= MaxListeners
  /\ IF isWatchSupported
       THEN /\ pending' = [e \in DOMAIN pending |->
                             [pending[e] EXCEPT
                                !.excl = @ \ NamedFor(pending[e].nsKey, callbackMap),
                                !.ever = @ \cup NamedFor(pending[e].nsKey, callbackMap)]]
            /\ Install(addListener(Current, callbackMap))
            /\ unwatched' = unwatched \ PairsOf(callbackMap)
       ELSE UNCHANGED <<watchVars, pending, unwatched>>
  /\ trace' = [op |-> "watch", returned |-> isWatchSupported]
  /\ UNCHANGED <<config, inflight, secureVars, hookVars, keyNamespace, storeVars>>

\* unwatch(callbackMap)
Unwatch(callbackMap) ==
  /\ IF isWatchSupported
       THEN /\ pending' = [e \in DOMAIN pending |->
                             [pending[e] EXCEPT
                                !.since = @ \ NamedFor(pending[e].nsKey, callbackMap)]]
            /\ Install(removeListener(Current, callbackMap))
            /\ unwatched' = unwatched \cup PairsOf(callbackMap)
       ELSE UNCHANGED <<watchVars, pending, unwatched>>
  /\ trace' = [op |-> "unwatch", returned |-> isWatchSupported,
               mismatch |-> Mismatch(callbackMap)]
  /\ UNCHANGED <<config, inflight, secureVars, hookVars, keyNamespace, storeVars>>

\* unwatchAll()
UnwatchAll ==
  /\ pending' = [e \in DOMAIN pending |->
                  [pending[e] EXCEPT !.since = {}, !.cleared = TRUE]]
  /\ Install(removeAllListener(Current))
  /\ trace' = [op |-> "unwatchAll"]
  /\ UNCHANGED <<config, inflight, secureVars, hookVars, keyNamespace, storeVars, unwatched>>

\* the chrome.storage.onChanged payload: a change-set over namespaced keys,
\* each with the raw (stored) old and new value; the key z is watched by nobody
StorageChanges ==
  {[newValue |-> Str(<<Quote, "a", Quote>>), oldValue |-> Undefined],
   [newValue |-> Str(<<"{">>), oldValue |-> Str(<<"1">>)]}
ChangeSets ==
  UNION {[S -> StorageChanges] : S \in {{k} : k \in AllNsKeys}
                                        \cup {{k, <<"z">>} : k \in AllNsKeys}}

NoCalls == [c \in Callbacks |-> 0]

\* the synchronous part of chromeStorageListener, the closure over nsKey:
\* "ignored" (other area, or nsKey not in the change-set), "threw" (no watch
\* map entry for nsKey) or "queued" (the decode of both values was started)
chromeStorageListenerAnyArea(nsKey, changes, areaName) ==
  IF nsKey \notin DOMAIN changes THEN "ignored"
  ELSE IF nsKey \notin DOMAIN watchMap THEN "threw"
  ELSE "queued"

chromeStorageListener(nsKey, changes, areaName) ==
  IF areaName # area \/ nsKey \notin DOMAIN changes THEN "ignored"
  ELSE IF nsKey \notin DOMAIN watchMap THEN "threw"
  ELSE "queued"

\* the platform emits a change event: every installed listener runs.  The
\* runs that queue a dispatch for one key are alike (same storageComms, same
\* values), so the event keeps their number.
Deliver(changes, areaName) ==
  /\ hasExt
  /\ Cardinality(DOMAIN pending) < MaxInFlight
  /\ LET ev == Fresh(DOMAIN pending)
         ran == [l \in DOMAIN onChanged |->
                   chromeStorageListener(onChanged[l], changes, areaName)]
         queued == {l \in DOMAIN onChanged : ran[l] = "queued"}
         nsKey == CHOOSE k \in DOMAIN changes : k \in AllNsKeys
     IN  /\ pending' =
              IF queued = {} THEN pending
              ELSE pending @@
                (ev :> [nsKey |-> nsKey,
                        areaName |-> areaName,
                        runs |-> Cardinality(queued),
                        \* storageComms, read when the event arrives
                        comms |-> watchMap[nsKey].callbackSet,
                        change |-> changes[nsKey],
                        calls |-> NoCalls,
                        \* callbacks of the key: unwatched when the event
                        \* arrived; registered ever since it arrived;
                        \* registered at some time since it arrived
                        excl |-> {c \in Callbacks : <<nsKey, c>> \in unwatched},
                        since |-> callbackSets[watchMap[nsKey].callbackSet],
                        ever |-> callbackSets[watchMap[nsKey].callbackSet],
                        \* unwatchAll ran since the event arrived
                        cleared |-> FALSE])
         /\ trace' = [op |-> "deliver",
                      foreign |-> areaName # area,
                      watched |-> (DOMAIN changes) \cap (DOMAIN watchMap) # {},
                      queued |-> queued # {}]
  /\ UNCHANGED <<config, inflight, secureVars, hookVars, keyNamespace, storeVars, watchVars, unwatched>>

\* the .then(...) of one listener run: both values decoded, every callback
\* now in the Set of the storageComms read at arrival is called once.
\* Callbacks are taken to return normally.
Dispatch(ev) ==
  /\ ev \in DOMAIN pending
  /\ LET p == pending[ev]
         invoked == callbackSets[p.comms]
         counted == [c \in Callbacks |->
                       IF c \in invoked THEN p.calls[c] + 1 ELSE p.calls[c]]
     IN  /\ pending' =
              IF p.runs > 1
                THEN [pending EXCEPT ![ev].runs = @ - 1, ![ev].calls = counted]
                ELSE [e \in (DOMAIN pending) \ {ev} |-> pending[e]]
         /\ callbackSets' = Collect(callbackSets, watchMap, pending')
         /\ trace' = [op |-> "dispatch",
                      areaName |-> p.areaName,
                      raw |-> p.change,
                      newValue |-> parseValue(p.change.newValue),
                      oldValue |-> parseValue(p.change.oldValue),
                      invoked |-> invoked,
                      times |-> [c \in invoked |-> counted[c]],
                      excl |-> p.excl,
                      since |-> p.since,
                      ever |-> p.ever,
                      cleared |-> p.cleared]
  /\ UNCHANGED <<config, inflight, secureVars, hookVars, keyNamespace, storeVars, watchMap, onChanged, unwatched>>

\* setNamespace(namespace)
SetNamespace(namespace) ==
  /\ keyNamespace' = namespace
  /\ trace' = [op |-> "setNamespace"]
  /\ UNCHANGED <<config, inflight, secureVars, hookVars, storeVars, watchVars, pending, unwatched>>

\* --------------------------------------------------------- specifications

\* a store that is no SecureStorage and that no hook is mounted on
NoOverlay ==
  /\ quotaBytes = 0
  /\ inflight = << >>
  /\ passwordKey = Undefined
  /\ saltSize = 0
  /\ ivSize = 0
  /\ emptyIvAccepted = FALSE
  /\ keyParams = << >>
  /\ isMounted = FALSE
  /\ onInit = "static"
  /\ hookKey = << >>
  /\ renderValue = Undefined
  /\ watchConfig = EmptyMap
  /\ memoKey = << >>
  /\ getting = << >>
  /\ persisting = << >>
  /\ hookEvents = << >>

\* the state after new Storage() and setNamespace(namespace)
Init ==
  /\ area = "sync"
  /\ hasExt \in BOOLEAN
  /\ hasWebApi = TRUE
  /\ allCopied = FALSE
  /\ copiedKeySet = {}
  /\ secondaryClient = FALSE
  /\ secretSet = {}
  /\ unlimited = FALSE
  /\ shouldCheckQuota = FALSE
  /\ NoOverlay
  /\ keyNamespace \in Namespaces
  /\ primary = EmptyMap
  /\ secondary = EmptyMap
  /\ written = EmptyMap
  /\ writer = EmptyMap
  /\ watchMap = EmptyMap
  /\ callbackSets = EmptyMap
  /\ onChanged = EmptyMap
  /\ pending = EmptyMap
  /\ unwatched = {}
  /\ trace = [op |-> "new"]

\* the multiplexer: watch registrations and the platform's change events
Next ==
  \/ \E callbackMap \in CallbackMaps : Watch(callbackMap)
  \/ \E callbackMap \in CallbackMaps : Unwatch(callbackMap)
  \/ UnwatchAll
  \/ \E changes \in ChangeSets, areaName \in Areas : Deliver(changes, areaName)
  \/ \E ev \in DOMAIN pending : Dispatch(ev)

Spec == Init /\ [][Next]_vars

\* ------------------------------------------------ dual-backend store

\* keys handed to the store; the second spells, under the empty namespace,
\* the entry the first has under the namespace "n"
StoreKeys == {<<"k">>, <<"n", "k">>}
\* the namespaces of the instances sharing the area: the default one, and
\* two of which neither is a prefix of the other
StoreNamespaces == {<< >>, <<"n">>, <<"m">>}
\* values handed to set: a string, a finite number and NaN
Values == {Str(<<"a">>), Num(<<"1">>), NaN}
\* the copiedKeyList a store is constructed with
CopiedKeyLists == {{}, {<<"k">>}}

\* the values JSON.stringify and JSON.parse carry unchanged
JSONRepresentable(x) ==
  x.t \in {"string", "null"} \/ (x.t = "number" /\ x # NaN)

\* the order Object.entries and Array.prototype.filter walk a key list in
RECURSIVE SetToSeq(_)
SetToSeq(S) ==
  IF S = {} THEN << >>
  ELSE LET x == CHOOSE y \in S : TRUE IN <<x>> \o SetToSeq(S \ {x})

Lookup(map, key) == IF key \in DOMAIN map THEN map[key] ELSE Undefined
Put(map, items) ==
  [k \in (DOMAIN map) \cup (DOMAIN items) |->
     IF k \in DOMAIN items THEN items[k] ELSE map[k]]
Drop(map, keys) == [k \in (DOMAIN map) \ keys |-> map[k]]

\* isCopied(key)
isCopied(key) == hasWebApi /\ (allCopied \/ key \in copiedKeySet)

\* the two backends and the calls made on them during one operation
Backends == [primary |-> primary, secondary |-> secondary, log |-> << >>]
Call(client, method, keys, items) ==
  [client |-> client, method |-> method, keys |-> keys, items |-> items]

\* a rawSetMany that writes the primary client one item at a time
rawSetManyEach(b, items) ==
  LET order == SetToSeq(DOMAIN items)
  IN  [b EXCEPT
         !.primary = Put(@, items),
         !.log = @ \o [i \in 1..Len(order) |->
                         Call("primary", "set", {order[i]},
                              (order[i] :> items[order[i]]))]]

\* rawSetMany(items): setItem on the secondary client for every copied key,
\* then one set(items) on the primary client
rawSetMany(b, items) ==
  LET copied == IF secondaryClient
                  THEN {k \in DOMAIN items : isCopied(k)} ELSE {}
      order == SetToSeq(copied)
      b1 == [b EXCEPT
               !.secondary = Put(@, [k \in copied |-> items[k]]),
               !.log = @ \o [i \in 1..Len(order) |->
                               Call("secondary", "setItem", {order[i]},
                                    (order[i] :> items[order[i]]))]]
  IN  IF hasExt
        THEN [b1 EXCEPT
                !.primary = Put(@, items),
                !.log = @ \o <<Call("primary", "set", DOMAIN items, items)>>]
        ELSE b1

\* rawSet(key, value)
rawSet(b, key, value) == rawSetMany(b, (key :> value))

\* a rawGetMany that reads the secondary client whatever the platform
rawGetManyWeb(b, keys) ==
  [results |-> [k \in keys |-> Lookup(b.secondary, k)],
   log |-> b.log \o [i \in 1..Len(SetToSeq(keys)) |->
                       Call("secondary", "getItem", {SetToSeq(keys)[i]},
                            EmptyMap)]]

\* rawGetMany(keys): one get(keys) on the primary client when the extension
\* API exists, else getItem on the secondary client for every copied key
rawGetMany(b, keys) ==
  IF hasExt
    THEN [results |-> [k \in keys \cap DOMAIN b.primary |-> b.primary[k]],
          log |-> b.log \o <<Call("primary", "get", keys, EmptyMap)>>]
    ELSE LET copied == {k \in keys : isCopied(k)}
             order == SetToSeq(IF secondaryClient THEN copied ELSE {})
         IN  [results |->
                [k \in copied |->
                   IF ~secondaryClient THEN Undefined
                   ELSE IF k \in DOMAIN b.secondary THEN b.secondary[k]
                   ELSE Null],
              log |-> b.log \o [i \in 1..Len(order) |->
                                  Call("secondary", "getItem", {order[i]},
                                       EmptyMap)]]

\* rawGet(key)
rawGet(b, key) ==
  LET got == rawGetMany(b, {key})
  IN  [result |-> Lookup(got.results, key), log |-> got.log]

\* a rawRemoveMany that leaves the secondary client alone
rawRemoveManyPrimaryOnly(b, keys) ==
  IF hasExt
    THEN [b EXCEPT
            !.primary = Drop(@, keys),
            !.log = @ \o <<Call("primary", "remove", keys, EmptyMap)>>]
    ELSE b

\* rawRemoveMany(keys): removeItem on the secondary client for every copied
\* key, then one remove(keys) on the primary client
rawRemoveMany(b, keys) ==
  LET copied == IF secondaryClient THEN {k \in keys : isCopied(k)} ELSE {}
      order == SetToSeq(copied)
      b1 == [b EXCEPT
               !.secondary = Drop(@, copied),
               !.log = @ \o [i \in 1..Len(order) |->
                               Call("secondary", "removeItem", {order[i]},
                                    EmptyMap)]]
  IN  IF hasExt
        THEN [b1 EXCEPT
                !.primary = Drop(@, keys),
                !.log = @ \o <<Call("primary", "remove", keys, EmptyMap)>>]
        ELSE b1

\* rawRemove(key)
rawRemove(b, key) == rawRemoveMany(b, {key})

\* set(key, rawValue)
Set(key, rawValue) ==
  LET nsKey == getNamespacedKey(key)
      value == serializer(rawValue)
      b == rawSet(Backends, nsKey, value)
  IN  /\ primary' = b.primary
      /\ secondary' = b.secondary
      /\ written' = Put(written, (nsKey :> rawValue))
      /\ writer' = Put(writer, (nsKey :> keyNamespace))
      /\ trace' = [op |-> "set", key |-> key, value |-> rawValue,
                   returned |-> Null, log |-> b.log]
      /\ UNCHANGED <<config, inflight, secureVars, hookVars, keyNamespace, watchVars, pending, unwatched>>

\* get(key)
Get(key) ==
  LET nsKey == getNamespacedKey(key)
      got == rawGet(Backends, nsKey)
  IN  /\ trace' = [op |-> "get", key |-> key,
                   returned |-> parseValue(got.result), log |-> got.log]
      /\ UNCHANGED <<config, inflight, secureVars, hookVars, keyNamespace, storeVars, watchVars, pending,
                     unwatched>>

\* getAll(): rawGetAll() is #primaryClient?.get(), which is undefined without
\* a primary client, and Object.entries(undefined) throws a TypeError
GetAll ==
  LET valid == {nsKey \in DOMAIN primary : isValidKey(nsKey)}
  IN  /\ trace' =
           IF hasExt
             THEN [op |-> "getAll", threw |-> FALSE,
                   returned |->
                     [key \in {getUnnamespacedKey(nsKey) : nsKey \in valid} |->
                        primary[CHOOSE nsKey \in valid :
                                  getUnnamespacedKey(nsKey) = key]],
                   log |-> <<Call("primary", "get", {}, EmptyMap)>>]
             ELSE [op |-> "getAll", threw |-> TRUE, returned |-> EmptyMap,
                   log |-> << >>]
      /\ UNCHANGED <<config, inflight, secureVars, hookVars, keyNamespace, storeVars, watchVars, pending,
                     unwatched>>

\* remove(key)
Remove(key) ==
  LET nsKey == getNamespacedKey(key)
      b == rawRemove(Backends, nsKey)
  IN  /\ primary' = b.primary
      /\ secondary' = b.secondary
      /\ written' = Drop(written, {nsKey})
      /\ writer' = Drop(writer, {nsKey})
      /\ trace' = [op |-> "remove", key |-> key, log |-> b.log]
      /\ UNCHANGED <<config, inflight, secureVars, hookVars, keyNamespace, watchVars, pending, unwatched>>

\* the values and items handed to setMany and the key lists handed to
\* getMany and removeMany
BatchValues == {Str(<<"a">>), NaN}
ItemSets == UNION {[S -> BatchValues] : S \in SUBSET StoreKeys}
KeyLists == SUBSET StoreKeys

\* setMany(items)
SetMany(items) ==
  LET keyOf(nsKey) == CHOOSE key \in DOMAIN items :
                         getNamespacedKey(key) = nsKey
      nsItems == [nsKey \in {getNamespacedKey(key) : key \in DOMAIN items} |->
                    serializer(items[keyOf(nsKey)])]
      b == rawSetMany(Backends, nsItems)
      set == [nsKey \in DOMAIN nsItems |-> items[keyOf(nsKey)]]
  IN  /\ primary' = b.primary
      /\ secondary' = b.secondary
      /\ written' = Put(written, set)
      /\ writer' = Put(writer, [nsKey \in DOMAIN nsItems |-> keyNamespace])
      /\ trace' = [op |-> "setMany", items |-> items, returned |-> Null,
                   log |-> b.log]
      /\ UNCHANGED <<config, inflight, secureVars, hookVars, keyNamespace, watchVars, pending, unwatched>>

\* getMany(keys): the results carry the keys the backend answered with
GetMany(keys) ==
  LET nsKeys == {getNamespacedKey(key) : key \in keys}
      got == rawGetMany(Backends, nsKeys)
  IN  /\ trace' = [op |-> "getMany", keys |-> keys,
                   returned |->
                     [key \in {getUnnamespacedKey(nsKey) :
                                 nsKey \in DOMAIN got.results} |->
                        parseValue(got.results[
                          CHOOSE nsKey \in DOMAIN got.results :
                            getUnnamespacedKey(nsKey) = key])],
                   log |-> got.log]
      /\ UNCHANGED <<config, inflight, secureVars, hookVars, keyNamespace, storeVars, watchVars, pending,
                     unwatched>>

\* removeMany(keys)
RemoveMany(keys) ==
  LET nsKeys == {getNamespacedKey(key) : key \in keys}
      b == rawRemoveMany(Backends, nsKeys)
  IN  /\ primary' = b.primary
      /\ secondary' = b.secondary
      /\ written' = Drop(written, nsKeys)
      /\ writer' = Drop(writer, nsKeys)
      /\ trace' = [op |-> "removeMany", keys |-> keys, log |-> b.log]
      /\ UNCHANGED <<config, inflight, secureVars, hookVars, keyNamespace, watchVars, pending, unwatched>>

\* removeAll(): the keys of getAll(), namespaced again by removeMany; the
\* TypeError of getAll() without a primary client propagates
RemoveAll ==
  LET valid == {nsKey \in DOMAIN primary : isValidKey(nsKey)}
      keyList == {getUnnamespacedKey(nsKey) : nsKey \in valid}
      nsKeys == {getNamespacedKey(key) : key \in keyList}
      b == rawRemoveMany([Backends EXCEPT
                            !.log = <<Call("primary", "get", {}, EmptyMap)>>],
                         nsKeys)
  IN  IF hasExt
        THEN /\ primary' = b.primary
             /\ secondary' = b.secondary
             /\ written' = Drop(written, nsKeys)
             /\ writer' = Drop(writer, nsKeys)
             /\ trace' = [op |-> "removeAll", threw |-> FALSE, log |-> b.log]
             /\ UNCHANGED <<config, inflight, secureVars, hookVars, keyNamespace, watchVars, pending,
                            unwatched>>
        ELSE /\ trace' = [op |-> "removeAll", threw |-> TRUE, log |-> << >>]
             /\ UNCHANGED <<config, inflight, secureVars, hookVars, keyNamespace, storeVars, watchVars,
                            pending, unwatched>>

\* a clear that removes the entries of the instance's namespace only
ClearNamespace(includeCopies) ==
  LET wiped == includeCopies /\ secondaryClient
      own == {nsKey \in DOMAIN primary : isValidKey(nsKey)}
  IN  /\ secondary' = IF wiped THEN EmptyMap ELSE secondary
      /\ primary' = IF hasExt THEN Drop(primary, own) ELSE primary
      /\ written' = IF hasExt THEN Drop(written, own) ELSE written
      /\ writer' = IF hasExt THEN Drop(writer, own) ELSE writer
      /\ trace' = [op |-> "clear", includeCopies |-> includeCopies,
                   threw |-> ~hasExt, cleared |-> DOMAIN primary,
                   log |-> << >>]
      /\ UNCHANGED <<config, inflight, secureVars, hookVars, keyNamespace, watchVars,
                     pending, unwatched>>

\* clear(includeCopies): #secondaryClient?.clear() when asked for, then
\* #primaryClient.clear(), a TypeError without a primary client
Clear(includeCopies) ==
  LET wiped == includeCopies /\ secondaryClient
  IN  /\ secondary' = IF wiped THEN EmptyMap ELSE secondary
      /\ primary' = IF hasExt THEN EmptyMap ELSE primary
      /\ written' = IF hasExt \/ wiped THEN EmptyMap ELSE written
      /\ writer' = IF hasExt \/ wiped THEN EmptyMap ELSE writer
      /\ trace' = [op |-> "clear", includeCopies |-> includeCopies,
                   threw |-> ~hasExt,
                   \* the keys the area held when clear was called
                   cleared |-> DOMAIN primary,
                   log |-> (IF wiped
                              THEN <<Call("secondary", "clear", {}, EmptyMap)>>
                              ELSE << >>)
                           \o (IF hasExt
                                 THEN <<Call("primary", "clear", {}, EmptyMap)>>
                                 ELSE << >>)]
      /\ UNCHANGED <<config, inflight, secureVars, hookVars, keyNamespace, watchVars, pending, unwatched>>

\* raw strings another writer of the area leaves in it: not JSON
ForeignValues == {Str(<<"{">>)}

\* the area is the platform's: another writer sets an entry of it
AreaSet(nsKey, raw) ==
  /\ hasExt
  /\ primary' = Put(primary, (nsKey :> raw))
  /\ secondary' = secondary
  /\ written' = Drop(written, {nsKey})
  /\ writer' = Drop(writer, {nsKey})
  /\ trace' = [op |-> "areaSet", nsKey |-> nsKey]
  /\ UNCHANGED <<config, inflight, secureVars, hookVars, keyNamespace, watchVars, pending, unwatched>>

\* the state after new Storage({ allCopied, copiedKeyList }): the secondary
\* client is taken when the web API exists and something is to be copied
InitStore ==
  /\ area = "sync"
  /\ hasExt \in BOOLEAN
  /\ hasWebApi \in BOOLEAN
  /\ allCopied \in BOOLEAN
  /\ copiedKeySet \in CopiedKeyLists
  /\ secondaryClient = (hasWebApi /\ (allCopied \/ copiedKeySet # {}))
  /\ secretSet = {}
  /\ unlimited = FALSE
  /\ shouldCheckQuota = FALSE
  /\ NoOverlay
  /\ keyNamespace = << >>
  /\ primary = EmptyMap
  /\ secondary = EmptyMap
  /\ written = EmptyMap
  /\ writer = EmptyMap
  /\ watchMap = EmptyMap
  /\ callbackSets = EmptyMap
  /\ onChanged = EmptyMap
  /\ pending = EmptyMap
  /\ unwatched = {}
  /\ trace = [op |-> "new"]

\* the store: the reads and writes of one instance
NextStore ==
  \/ \E key \in StoreKeys, rawValue \in Values : Set(key, rawValue)
  \/ \E key \in StoreKeys : Get(key)
  \/ GetAll
  \/ \E key \in StoreKeys : Remove(key)
  \/ \E namespace \in Namespaces : SetNamespace(namespace)
  \/ \E items \in ItemSets : SetMany(items)
  \/ \E keys \in KeyLists : GetMany(keys)
  \/ \E keys \in KeyLists : RemoveMany(keys)
  \/ RemoveAll
  \/ \E includeCopies \in BOOLEAN : Clear(includeCopies)
  \/ \E raw \in ForeignValues : AreaSet(<<"k">>, raw)

SpecStore == InitStore /\ [][NextStore]_vars

\* instances of different namespaces sharing one area: what one sets and
\* the others enumerate and remove
NextArea ==
  \/ \E key \in StoreKeys : Set(key, Str(<<"a">>))
  \/ GetAll
  \/ RemoveAll
  \/ \E namespace \in StoreNamespaces : SetNamespace(namespace)

SpecArea == InitStore /\ [][NextArea]_vars

\* what copy is called with: no key, or one key
CopyArgs == {{}} \cup {{key} : key \in StoreKeys}

\* copy(key?): refused unless everything is copied and the extension API
\* exists (and the key, when given, is in the copied key set); else every
\* entry read from the primary client is set on the secondary client, and
\* the result tells whether a value differed from the one getItem returned
Copy(arg) ==
  LET syncAll == arg = {}
      refused == \/ ~syncAll /\ arg \cap copiedKeySet = {}
                 \/ ~allCopied
                 \/ ~hasExt
      nsKeys == {getNamespacedKey(key) :
                   key \in (IF syncAll THEN copiedKeySet ELSE arg)}
      dataMap == IF allCopied THEN primary
                 ELSE [pKey \in nsKeys \cap DOMAIN primary |-> primary[pKey]]
      previousValue(pKey) ==
        IF ~secondaryClient THEN Undefined
        ELSE IF pKey \in DOMAIN secondary THEN secondary[pKey]
        ELSE Null
      changed == \E pKey \in DOMAIN dataMap :
                   dataMap[pKey] # previousValue(pKey)
      order == SetToSeq(IF secondaryClient THEN DOMAIN dataMap ELSE {})
  IN  /\ secondary' = IF ~refused /\ secondaryClient
                        THEN Put(secondary, dataMap)
                        ELSE secondary
      /\ trace' =
           IF refused
             THEN [op |-> "copy", arg |-> arg, returned |-> FALSE,
                   log |-> << >>]
             ELSE [op |-> "copy", arg |-> arg, returned |-> changed,
                   log |-> <<Call("primary", "get",
                                  IF allCopied THEN {} ELSE nsKeys, EmptyMap)>>
                           \o [i \in 1..(2 * Len(order)) |->
                                 IF i % 2 = 1
                                   THEN Call("secondary", "getItem",
                                             {order[(i + 1) \div 2]}, EmptyMap)
                                   ELSE Call("secondary", "setItem",
                                             {order[i \div 2]},
                                             (order[i \div 2] :>
                                                dataMap[order[i \div 2]]))]]
      /\ UNCHANGED <<config, inflight, secureVars, hookVars, keyNamespace, primary,
                     written, writer, watchVars, pending, unwatched>>

\* the mirror and its refresh: one instance's writes, another writer's, and
\* copy
NextCopy ==
  \/ \E key \in StoreKeys : Set(key, Str(<<"a">>))
  \/ \E key \in StoreKeys : Remove(key)
  \/ \E raw \in ForeignValues : AreaSet(<<"k">>, raw)
  \/ \E arg \in CopyArgs : Copy(arg)
  \/ \E namespace \in Namespaces : SetNamespace(namespace)

SpecCopy == InitStore /\ [][NextCopy]_vars

\* setCopiedKeySet(keyList)
SetCopiedKeySet(keyList) ==
  /\ copiedKeySet' = keyList
  /\ trace' = [op |-> "setCopiedKeySet", keyList |-> keyList]
  /\ UNCHANGED <<area, hasExt, hasWebApi, allCopied, secondaryClient,
                 secretSet, unlimited, shouldCheckQuota, quotaBytes,
                 inflight, secureVars,
                 hookVars, keyNamespace, storeVars, watchVars, pending,
                 unwatched>>

\* a store whose copied key list is set after construction
NextMirror ==
  \/ \E keyList \in KeyLists : SetCopiedKeySet(keyList)
  \/ \E key \in StoreKeys, rawValue \in Values : Set(key, rawValue)
  \/ \E key \in StoreKeys : Remove(key)

SpecMirror == InitStore /\ [][NextMirror]_vars

\* --------------------------------------- quota-checking revision of set

\* most bytes the platform reports in use
MaxBytesInUse == 12
\* QUOTA_BYTES of the area; 0 stands for an area that defines none
Quotas == {0, 10}
\* bytes the platform reports for the entry of one key
OldValueByteSizes == {0, 3}
\* the key handed to the quota-checking set
QuotaKeys == {<<"k">>}
\* values handed to the quota-checking set: 3 and 4 bytes when serialized
QuotaValues == {Str(<<"a">>), NaN}
\* the secretKeyList a store is constructed with
SecretKeyLists == {{}, {<<"k">>}}

\* String.prototype.charCodeAt, for the characters of the serialized values
\* and for code units written U+hhhh
charCodeAt(c) ==
  CASE c = Quote -> 34
    [] c = "a" -> 97
    [] c = "n" -> 110
    [] c = "u" -> 117
    [] c = "l" -> 108
    [] c = "1" -> 49
    [] c = "U+007F" -> 127
    [] c = "U+0080" -> 128
    [] c = "U+07FF" -> 2047
    [] c = "U+0800" -> 2048
    [] c = "U+D800" -> 55296
    [] c = "U+DBFF" -> 56319
    [] c = "U+DC00" -> 56320
    [] c = "U+DFFF" -> 57343
    [] c = "U+E000" -> 57344
    [] c = "U+FFFF" -> 65535

\* the loop of byteLengthCharCode, from the last code unit down
RECURSIVE byteLengthLoop(_, _, _)
byteLengthLoop(str, i, s) ==
  IF i < 1 THEN s
  ELSE LET code == charCodeAt(str[i])
           s1 == IF code > 127 /\ code <= 2047 THEN s + 1
                 ELSE IF code > 2047 /\ code <= 65535 THEN s + 2
                 ELSE s
           i1 == IF code >= 56320 /\ code <= 57343 THEN i - 1 ELSE i
       IN  byteLengthLoop(str, i1 - 1, s1)

\* a byte length that counts code units
byteLengthUnits(str) == Len(str)

\* byteLengthCharCode(str): the byte length of a string in UTF-8
byteLengthCharCode(str) == byteLengthLoop(str, Len(str), Len(str))

\* a verdict that warns from 80% of the quota on
quotaVerdictWarnAt80(newByteInUse, quota) ==
  IF newByteInUse > quota THEN "reject"
  ELSE IF 5 * newByteInUse >= 4 * quota THEN "warning"
  ELSE "ok"

\* usedPercentage = newByteInUse / quota against 0.8 and 1.0; the quotient
\* of two integers below 2^53 exceeds 0.8 exactly when 5 * n > 4 * q
quotaVerdict(newByteInUse, quota) ==
  IF newByteInUse > quota THEN "reject"
  ELSE IF 5 * newByteInUse > 4 * quota THEN "warning"
  ELSE "ok"

\* set(key, rawValue) of the quota-checking revision; QUOTA_BYTES, byteInUse
\* and oldValueByteSize are the platform's answers
SetWithQuota(key, rawValue, QUOTA_BYTES, byteInUse, oldValueByteSize) ==
  LET value == JSONstringify(rawValue)
      mirrored == key \notin secretSet /\ hasWebApi
      checked == hasExt /\ area # "managed"
      quota == IF QUOTA_BYTES = 0 THEN 1 ELSE QUOTA_BYTES
      newValueByteSize == byteLengthCharCode(value.v)
      newByteInUse == byteInUse + newValueByteSize - oldValueByteSize
      verdict == IF checked THEN quotaVerdict(newByteInUse, quota) ELSE "ok"
      rejected == verdict = "reject"
      wrote == hasExt /\ ~rejected
  IN  /\ oldValueByteSize <= byteInUse
      /\ ~checked => QUOTA_BYTES = 0 /\ byteInUse = 0 /\ oldValueByteSize = 0
      /\ secondary' = IF mirrored THEN Put(secondary, (key :> value))
                      ELSE secondary
      /\ primary' = IF wrote THEN Put(primary, (key :> value)) ELSE primary
      /\ written' = IF rejected THEN written ELSE Put(written, (key :> rawValue))
      /\ writer' = IF rejected THEN writer ELSE Put(writer, (key :> keyNamespace))
      /\ trace' = [op |-> "setWithQuota", key |-> key, value |-> rawValue,
                   checked |-> checked,
                   QUOTA_BYTES |-> QUOTA_BYTES,
                   byteInUse |-> byteInUse,
                   oldValueByteSize |-> oldValueByteSize,
                   warning |-> verdict # "ok",
                   rejected |-> rejected,
                   log |-> (IF mirrored
                              THEN <<Call("secondary", "setItem", {key},
                                          (key :> value))>>
                              ELSE << >>)
                           \o (IF wrote
                                 THEN <<Call("primary", "set", {key},
                                             (key :> value))>>
                                 ELSE << >>)]
      /\ UNCHANGED <<config, inflight, secureVars, hookVars, keyNamespace, watchVars, pending, unwatched>>

\* the state after new Storage(storageArea, secretKeyList)
InitQuota ==
  /\ area \in {"sync", "managed"}
  /\ hasExt \in BOOLEAN
  /\ hasWebApi \in BOOLEAN
  /\ allCopied = FALSE
  /\ copiedKeySet = {}
  /\ secondaryClient = hasWebApi
  /\ secretSet \in SecretKeyLists
  /\ unlimited = FALSE
  /\ shouldCheckQuota = FALSE
  /\ NoOverlay
  /\ keyNamespace = << >>
  /\ primary = EmptyMap
  /\ secondary = EmptyMap
  /\ written = EmptyMap
  /\ writer = EmptyMap
  /\ watchMap = EmptyMap
  /\ callbackSets = EmptyMap
  /\ onChanged = EmptyMap
  /\ pending = EmptyMap
  /\ unwatched = {}
  /\ trace = [op |-> "new"]

\* the quota-checking store: its writes
NextQuota ==
  \E key \in QuotaKeys, rawValue \in QuotaValues, QUOTA_BYTES \in Quotas,
     byteInUse \in 0..MaxBytesInUse, oldValueByteSize \in OldValueByteSizes :
    SetWithQuota(key, rawValue, QUOTA_BYTES, byteInUse, oldValueByteSize)

SpecQuota == InitQuota /\ [][NextQuota]_vars

\* ------------------------- concurrent calls of the quota-checking set

\* most set calls waiting for getBytesInUse at a time
MaxWaiting == 2

\* the keys, values and quotas of the concurrent calls: serialized, the
\* values take 3 and 4 bytes; the small quota has room for one of them
RaceKeys == {<<"k">>, <<"j">>}
RaceValues == {Str(<<"a">>), NaN}
RaceQuotas == {5, 100}

\* what getBytesInUse() and getBytesInUse(key) answer: the bytes of the
\* values the area holds, as byteLengthCharCode counts them
RECURSIVE bytesOf(_, _)
bytesOf(map, keys) ==
  IF keys = {} THEN 0
  ELSE LET key == CHOOSE k \in keys : TRUE
       IN  byteLengthCharCode(map[key].v) + bytesOf(map, keys \ {key})
getBytesInUse(keys) == bytesOf(primary, keys \cap DOMAIN primary)

\* set(key, rawValue) up to its await: the value goes to localStorage unless
\* the key is secret, then the usage of the area is asked for
SetBegin(key, rawValue) ==
  LET value == JSONstringify(rawValue)
      mirrored == key \notin secretSet /\ secondaryClient
      checked == hasExt /\ area # "managed"
  IN  /\ checked => Len(inflight) < MaxWaiting
      /\ secondary' = IF mirrored THEN Put(secondary, (key :> value))
                      ELSE secondary
      /\ primary' = IF hasExt /\ ~checked THEN Put(primary, (key :> value))
                    ELSE primary
      /\ inflight' =
           IF checked
             THEN Append(inflight,
                         [op |-> "set", key |-> key, value |-> value,
                          byteInUse |-> getBytesInUse(DOMAIN primary),
                          oldValueByteSize |-> getBytesInUse({key})])
             ELSE inflight
      /\ trace' = [op |-> "setBegin", key |-> key, value |-> rawValue]
      /\ UNCHANGED <<config, secureVars, hookVars, keyNamespace, written,
                     writer, watchVars, pending, unwatched>>

\* set after its await: the oldest waiting call gets its answers, rejects
\* when the projected usage exceeds the quota, and else writes the area
SetResume ==
  /\ inflight # << >>
  /\ Head(inflight).op = "set"
  /\ LET call == Head(inflight)
         quota == IF quotaBytes = 0 THEN 1 ELSE quotaBytes
         newByteInUse == call.byteInUse + byteLengthCharCode(call.value.v)
                           - call.oldValueByteSize
         rejected == quotaVerdict(newByteInUse, quota) = "reject"
     IN  /\ inflight' = Tail(inflight)
         /\ primary' = IF rejected THEN primary
                       ELSE Put(primary, (call.key :> call.value))
         /\ trace' = [op |-> "setResume", key |-> call.key,
                      newByteInUse |-> newByteInUse, rejected |-> rejected]
  /\ UNCHANGED <<config, secureVars, hookVars, keyNamespace, secondary,
                 written, writer, watchVars, pending, unwatched>>

\* remove(key) of the same revision: removeItem, then remove on the area
RemoveQuota(key) ==
  /\ secondary' = IF key \notin secretSet /\ secondaryClient
                    THEN Drop(secondary, {key}) ELSE secondary
  /\ primary' = IF hasExt THEN Drop(primary, {key}) ELSE primary
  /\ trace' = [op |-> "removeQuota", key |-> key]
  /\ UNCHANGED <<config, inflight, secureVars, hookVars, keyNamespace,
                 written, writer, watchVars, pending, unwatched>>

\* a store of the quota-checking revision on an area with a quota
InitRace ==
  /\ area \in {"sync", "managed"}
  /\ hasExt = TRUE
  /\ hasWebApi = TRUE
  /\ allCopied = FALSE
  /\ copiedKeySet = {}
  /\ secondaryClient = hasWebApi
  /\ secretSet = {}
  /\ unlimited = FALSE
  /\ shouldCheckQuota = FALSE
  /\ quotaBytes \in RaceQuotas
  /\ inflight = << >>
  /\ passwordKey = Undefined
  /\ saltSize = 0
  /\ ivSize = 0
  /\ emptyIvAccepted = FALSE
  /\ keyParams = << >>
  /\ isMounted = FALSE
  /\ onInit = "static"
  /\ hookKey = << >>
  /\ renderValue = Undefined
  /\ watchConfig = EmptyMap
  /\ memoKey = << >>
  /\ getting = << >>
  /\ persisting = << >>
  /\ hookEvents = << >>
  /\ keyNamespace = << >>
  /\ primary = EmptyMap
  /\ secondary = EmptyMap
  /\ written = EmptyMap
  /\ writer = EmptyMap
  /\ watchMap = EmptyMap
  /\ callbackSets = EmptyMap
  /\ onChanged = EmptyMap
  /\ pending = EmptyMap
  /\ unwatched = {}
  /\ trace = [op |-> "new"]

\* set and remove calls of one instance, running concurrently
NextRace ==
  \/ \E key \in RaceKeys, rawValue \in RaceValues : SetBegin(key, rawValue)
  \/ SetResume
  \/ \E key \in RaceKeys : RemoveQuota(key)

SpecRace == InitRace /\ [][NextRace]_vars

\* ------------------------------------------- the byte-length function

\* longest string handed to byteLengthCharCode
MaxStrLen == 3

\* code units at the borders of the UTF-8 lengths and of the surrogates
UnitChars == {"a", "U+007F", "U+0080", "U+07FF", "U+0800", "U+D800",
              "U+DBFF", "U+DC00", "U+DFFF", "U+E000", "U+FFFF"}
UnitStrings == UNION {[1..n -> UnitChars] : n \in 0..MaxStrLen}

\* a call of byteLengthCharCode(str) on the string at hand
ByteLength ==
  /\ trace.op = "value"
  /\ trace' = [op |-> "byteLengthCharCode", str |-> trace.str,
               returned |-> byteLengthCharCode(trace.str)]
  /\ UNCHANGED <<config, inflight, secureVars, hookVars, keyNamespace, storeVars,
                 watchVars, pending, unwatched>>

\* a store of the quota-checking revision and a serialized value
InitBytes ==
  /\ area = "sync"
  /\ hasExt = TRUE
  /\ hasWebApi = TRUE
  /\ allCopied = FALSE
  /\ copiedKeySet = {}
  /\ secondaryClient = hasWebApi
  /\ secretSet = {}
  /\ unlimited = FALSE
  /\ shouldCheckQuota = FALSE
  /\ NoOverlay
  /\ keyNamespace = << >>
  /\ primary = EmptyMap
  /\ secondary = EmptyMap
  /\ written = EmptyMap
  /\ writer = EmptyMap
  /\ watchMap = EmptyMap
  /\ callbackSets = EmptyMap
  /\ onChanged = EmptyMap
  /\ pending = EmptyMap
  /\ unwatched = {}
  /\ \E str \in UnitStrings : trace = [op |-> "value", str |-> str]

NextBytes == ByteLength

SpecBytes == InitBytes /\ [][NextBytes]_vars

\* ------------------------- revision of set with the unlimited option

\* getQuotaWarning(storage, key, value), of get-quota-warning: the Quota
\* Estimator's verdict on the projected usage; the managed area is exempt
getQuotaWarning(newByteInUse, quota) ==
  IF area = "managed" THEN "ok" ELSE quotaVerdict(newByteInUse, quota)

\* set(key, rawValue) of the revision with the unlimited option: rawSet
\* mirrors a copied key, then asks getQuotaWarning when #shouldCheckQuota,
\* then sets the key on the primary client
SetUnlimited(key, rawValue, QUOTA_BYTES, byteInUse, oldValueByteSize) ==
  LET value == JSONstringify(rawValue)
      mirrored == isCopied(key) /\ secondaryClient
      checked == hasExt /\ shouldCheckQuota
      quota == IF QUOTA_BYTES = 0 THEN 1 ELSE QUOTA_BYTES
      newByteInUse == byteInUse + byteLengthCharCode(value.v)
                        - oldValueByteSize
      verdict == IF checked THEN getQuotaWarning(newByteInUse, quota)
                 ELSE "ok"
      rejected == verdict = "reject"
      wrote == hasExt /\ ~rejected
  IN  /\ oldValueByteSize <= byteInUse
      /\ ~checked => QUOTA_BYTES = 0 /\ byteInUse = 0 /\ oldValueByteSize = 0
      /\ secondary' = IF mirrored THEN Put(secondary, (key :> value))
                      ELSE secondary
      /\ primary' = IF wrote THEN Put(primary, (key :> value)) ELSE primary
      /\ written' = IF rejected THEN written
                    ELSE Put(written, (key :> rawValue))
      /\ writer' = IF rejected THEN writer
                   ELSE Put(writer, (key :> keyNamespace))
      /\ trace' = [op |-> "setUnlimited", key |-> key, value |-> rawValue,
                   checked |-> checked,
                   QUOTA_BYTES |-> QUOTA_BYTES,
                   byteInUse |-> byteInUse,
                   oldValueByteSize |-> oldValueByteSize,
                   warning |-> verdict # "ok",
                   rejected |-> rejected,
                   log |-> (IF mirrored
                              THEN <<Call("secondary", "setItem", {key},
                                          (key :> value))>>
                              ELSE << >>)
                           \o (IF wrote
                                 THEN <<Call("primary", "set", {key},
                                             (key :> value))>>
                                 ELSE << >>)]
      /\ UNCHANGED <<config, inflight, secureVars, hookVars, keyNamespace, watchVars,
                     pending, unwatched>>

\* the state after new Storage({ area, unlimited, allCopied }): the
\* constructor assigns the unlimited option to #shouldCheckQuota
InitUnlimited ==
  /\ area \in {"sync", "managed"}
  /\ hasExt \in BOOLEAN
  /\ hasWebApi \in BOOLEAN
  /\ allCopied \in BOOLEAN
  /\ copiedKeySet = {}
  /\ secondaryClient = hasWebApi
  /\ secretSet = {}
  /\ unlimited \in BOOLEAN
  /\ shouldCheckQuota = unlimited
  /\ NoOverlay
  /\ keyNamespace = << >>
  /\ primary = EmptyMap
  /\ secondary = EmptyMap
  /\ written = EmptyMap
  /\ writer = EmptyMap
  /\ watchMap = EmptyMap
  /\ callbackSets = EmptyMap
  /\ onChanged = EmptyMap
  /\ pending = EmptyMap
  /\ unwatched = {}
  /\ trace = [op |-> "new"]

\* the store with the unlimited option: its writes
NextUnlimited ==
  \E key \in QuotaKeys, rawValue \in QuotaValues, QUOTA_BYTES \in Quotas,
     byteInUse \in 0..MaxBytesInUse, oldValueByteSize \in OldValueByteSizes :
    SetUnlimited(key, rawValue, QUOTA_BYTES, byteInUse, oldValueByteSize)

SpecUnlimited == InitUnlimited /\ [][NextUnlimited]_vars

\* ------------------------------------------------------- SecureStorage

\* passwords, sizes and plaintexts handed to SecureStorage, and the values
\* crypto.getRandomValues draws
Passwords == {"p", "q"}
SaltSizes == {1}
IvSizes == {0, 1}
RandomValues == {"r0", "r1"}
RawDatas == {<<"a">>, <<Quote, "a", Quote>>}
SecureKeys == {<<"k">>}
SecureValues == {Str(<<"a">>), NaN}

\* the CryptoKey importKey returns for a password
CryptoKey(password) == [t |-> "CryptoKey", v |-> <<password>>]

\* the outcome of an async function: the error it rejects with, or "" and
\* the value it resolves to
Resolved(value) == [error |-> "", value |-> value]
Rejected(error) == [error |-> error, value |-> Undefined]

\* one element of a Uint8Array: of a text, drawn at random, zero, or
\* produced by AES-GCM under a key and an iv (an octet of the ciphertext, or
\* the authentication tag that ends it)
NoAesKey == [passwordKey |-> Undefined, salt |-> << >>]
Octet(kind, c, aesKey, iv) == [kind |-> kind, c |-> c, aesKey |-> aesKey,
                              iv |-> iv]
ZeroOctet == Octet("zero", "0", NoAesKey, << >>)
\* crypto.getRandomValues(new Uint8Array(size))
getRandomValues(size) ==
  [1..size -> {Octet("random", r, NoAesKey, << >>) : r \in RandomValues}]

\* #encoder.encode and #decoder.decode, on texts of one-octet characters
encode(str) == [i \in 1..Len(str) |-> Octet("text", str[i], NoAesKey, << >>)]
decode(buffer) == Str([i \in 1..Len(buffer) |-> buffer[i].c])

\* u8ToBase64 and base64ToU8: the text btoa makes of the octets, and back
u8ToBase64(a) == [t |-> "base64", v |-> a]
base64ToU8(base64) == base64.v

\* #deriveKey(salt, passwordKey, keyUsage)
deriveKey(salt, passKey) == [passwordKey |-> passKey, salt |-> salt]

\* crypto.subtle.encrypt and crypto.subtle.decrypt with AES-GCM: decrypt
\* rejects whatever was not encrypted under the same key and iv
subtleEncrypt(iv, aesKey, data) ==
  [i \in 1..Len(data) |-> Octet("cipher", data[i].c, aesKey, iv)]
    \o <<Octet("tag", "", aesKey, iv)>>
subtleDecrypt(iv, aesKey, data) ==
  LET n == Len(data)
      authentic ==
        /\ n >= 1
        /\ data[n] = Octet("tag", "", aesKey, iv)
        /\ \A i \in 1..(n - 1) :
             /\ data[i].kind = "cipher"
             /\ data[i].aesKey = aesKey
             /\ data[i].iv = iv
  IN  IF authentic
        THEN Resolved([i \in 1..(n - 1) |->
                         Octet("text", data[i].c, NoAesKey, << >>)])
        ELSE Rejected("OperationError")

\* Uint8Array.prototype.slice(start, end) and .set(array, offset); set
\* throws a RangeError when the array does not fit behind the offset
slice(buffer, start, end) ==
  SubSeq(buffer, start + 1, IF end < Len(buffer) THEN end ELSE Len(buffer))
fits(buffer, array, offset) == Len(array) + offset <= Len(buffer)
set(buffer, array, offset) ==
  [i \in 1..Len(buffer) |->
     IF i > offset /\ i <= offset + Len(array) THEN array[i - offset]
     ELSE buffer[i]]

\* an encrypt that returns the text it was given
encryptPlain(rawData, salt, iv) == Resolved(Str(rawData))

\* encrypt(rawData), with the salt and the iv getRandomValues drew: the
\* box buffer has room for salt, iv and encrypted data, and the encrypted
\* data are set at #prefixSize + iv.byteLength
encrypt(rawData, salt, iv) ==
  IF passwordKey = Undefined THEN Rejected("PasswordNotSet")
  ELSE IF Len(iv) = 0 /\ ~emptyIvAccepted THEN Rejected("OperationError")
  ELSE LET aesKey == deriveKey(salt, passwordKey)
           encryptedDataBuffer == subtleEncrypt(iv, aesKey, encode(rawData))
           prefixSize == saltSize + ivSize
           boxBuffer == [i \in 1..(prefixSize + Len(encryptedDataBuffer)) |->
                           ZeroOctet]
           withSalt == set(boxBuffer, salt, 0)
           withIv == set(withSalt, iv, saltSize)
       IN  IF fits(withIv, encryptedDataBuffer, prefixSize + Len(iv))
             THEN Resolved(u8ToBase64(
                    set(withIv, encryptedDataBuffer, prefixSize + Len(iv))))
             ELSE Rejected("RangeError")

\* decrypt(boxBase64); of a text that is no envelope atob throws, or makes
\* octets that crypto.subtle.decrypt rejects
decrypt(boxBase64) ==
  IF passwordKey = Undefined THEN Rejected("PasswordNotSet")
  ELSE IF boxBase64.t # "base64" THEN Rejected("OperationError")
  ELSE LET boxBuffer == base64ToU8(boxBase64)
           prefixSize == saltSize + ivSize
           salt == slice(boxBuffer, 0, saltSize)
           iv == slice(boxBuffer, saltSize, prefixSize)
           encryptedDataBuffer == slice(boxBuffer, prefixSize, Len(boxBuffer))
           aesKey == deriveKey(salt, passwordKey)
           decryptedDataBuffer == subtleDecrypt(iv, aesKey, encryptedDataBuffer)
       IN  IF Len(iv) = 0 /\ ~emptyIvAccepted THEN Rejected("OperationError")
           ELSE IF decryptedDataBuffer.error # "" THEN decryptedDataBuffer
           ELSE Resolved(decode(decryptedDataBuffer.value))

\* SecureStorage.parseValue(boxBase64): whatever decrypt or JSON.parse
\* throws is caught, and undefined returned
parseValueSecure(boxBase64) ==
  IF boxBase64 = Undefined THEN Undefined
  ELSE LET rawValue == decrypt(boxBase64)
       IN  IF rawValue.error # "" THEN Undefined
           ELSE parseValue(rawValue.value)

\* setPassword(password, { saltSize, ivSize })
SetPassword(password, newSaltSize, newIvSize) ==
  /\ saltSize' = newSaltSize
  /\ ivSize' = newIvSize
  /\ passwordKey' = CryptoKey(password)
  /\ keyParams' = <<newSaltSize, newIvSize>>
  /\ trace' = [op |-> "setPassword", error |-> ""]
  /\ UNCHANGED <<config, inflight, emptyIvAccepted, hookVars, keyNamespace, storeVars,
                 watchVars, pending, unwatched>>

\* a call of encrypt(rawData)
Encrypt(rawData, salt, iv) ==
  LET boxBase64 == encrypt(rawData, salt, iv)
  IN  /\ trace' = [op |-> "encrypt", rawData |-> rawData, salt |-> salt,
                   iv |-> iv, error |-> boxBase64.error,
                   returned |-> boxBase64.value, log |-> << >>]
      /\ UNCHANGED <<config, inflight, secureVars, hookVars, keyNamespace, storeVars,
                     watchVars, pending, unwatched>>

\* a call of decrypt(boxBase64)
Decrypt(boxBase64) ==
  LET rawData == decrypt(boxBase64)
  IN  /\ trace' = [op |-> "decrypt", boxBase64 |-> boxBase64,
                   error |-> rawData.error, returned |-> rawData.value,
                   log |-> << >>]
      /\ UNCHANGED <<config, inflight, secureVars, hookVars, keyNamespace, storeVars,
                     watchVars, pending, unwatched>>

\* SecureStorage.set(key, rawValue)
SecureSet(key, rawValue, salt, iv) ==
  LET value == JSONstringify(rawValue)
      boxBase64 == encrypt(value.v, salt, iv)
      b == IF boxBase64.error = ""
             THEN rawSet(Backends, key, boxBase64.value)
             ELSE Backends
  IN  /\ primary' = b.primary
      /\ secondary' = b.secondary
      /\ written' = IF boxBase64.error = ""
                      THEN Put(written, (key :> rawValue)) ELSE written
      /\ writer' = IF boxBase64.error = ""
                     THEN Put(writer, (key :> keyNamespace)) ELSE writer
      /\ trace' = [op |-> "secureSet", key |-> key, value |-> rawValue,
                   error |-> boxBase64.error, returned |-> Null,
                   log |-> b.log]
      /\ UNCHANGED <<config, inflight, secureVars, hookVars, keyNamespace, watchVars,
                     pending, unwatched>>

\* SecureStorage.get(key)
SecureGet(key) ==
  LET got == rawGet(Backends, key)
  IN  /\ trace' = [op |-> "secureGet", key |-> key, error |-> "",
                   returned |-> parseValueSecure(got.result), log |-> got.log]
      /\ UNCHANGED <<config, inflight, secureVars, hookVars, keyNamespace, storeVars,
                     watchVars, pending, unwatched>>

\* the state after new SecureStorage({ allCopied })
InitSecure ==
  /\ area = "sync"
  /\ hasExt \in BOOLEAN
  /\ hasWebApi \in BOOLEAN
  /\ allCopied \in BOOLEAN
  /\ copiedKeySet = {}
  /\ secondaryClient = (hasWebApi /\ allCopied)
  /\ secretSet = {}
  /\ unlimited = FALSE
  /\ shouldCheckQuota = FALSE
  /\ quotaBytes = 0
  /\ inflight = << >>
  /\ passwordKey = Undefined
  /\ saltSize = 0
  /\ ivSize = 0
  /\ emptyIvAccepted \in BOOLEAN
  /\ keyParams = << >>
  /\ isMounted = FALSE
  /\ onInit = "static"
  /\ hookKey = << >>
  /\ renderValue = Undefined
  /\ watchConfig = EmptyMap
  /\ memoKey = << >>
  /\ getting = << >>
  /\ persisting = << >>
  /\ hookEvents = << >>
  /\ keyNamespace = << >>
  /\ primary = EmptyMap
  /\ secondary = EmptyMap
  /\ written = EmptyMap
  /\ writer = EmptyMap
  /\ watchMap = EmptyMap
  /\ callbackSets = EmptyMap
  /\ onChanged = EmptyMap
  /\ pending = EmptyMap
  /\ unwatched = {}
  /\ trace = [op |-> "new"]

\* the texts decrypt is called with: what the area holds, and a foreign one
BoxTexts == {primary[key] : key \in DOMAIN primary} \cup ForeignValues

\* SecureStorage: its password, its crypto calls, its reads and writes
NextSecure ==
  \/ \E password \in Passwords, newSaltSize \in SaltSizes,
        newIvSize \in IvSizes :
       SetPassword(password, newSaltSize, newIvSize)
  \/ \E rawData \in RawDatas, salt \in getRandomValues(saltSize),
        iv \in getRandomValues(ivSize) :
       Encrypt(rawData, salt, iv)
  \/ \E boxBase64 \in BoxTexts : Decrypt(boxBase64)
  \/ \E key \in SecureKeys, rawValue \in SecureValues,
        salt \in getRandomValues(saltSize), iv \in getRandomValues(ivSize) :
       SecureSet(key, rawValue, salt, iv)
  \/ \E key \in SecureKeys : SecureGet(key)
  \/ \E raw \in ForeignValues : AreaSet(<<"k">>, raw)

SpecSecure == InitSecure /\ [][NextSecure]_vars

\* --------------------------------------------- setPassword and its await

\* most setPassword calls waiting for importKey at a time
MaxImporting == 1

\* setPassword(password, { saltSize, ivSize }) up to its await: the sizes
\* are assigned, and importKey is called with the password
SetPasswordBegin(password, newSaltSize, newIvSize) ==
  /\ Len(inflight) < MaxImporting
  /\ saltSize' = newSaltSize
  /\ ivSize' = newIvSize
  /\ inflight' = Append(inflight,
                        [op |-> "importKey", password |-> password,
                         saltSize |-> newSaltSize, ivSize |-> newIvSize])
  /\ trace' = [op |-> "setPasswordBegin", error |-> ""]
  /\ UNCHANGED <<config, passwordKey, keyParams, emptyIvAccepted, hookVars,
                 keyNamespace, storeVars, watchVars, pending, unwatched>>

\* setPassword after its await: the key importKey made of the password of
\* the oldest waiting call is assigned to #passwordKey
SetPasswordSettle ==
  /\ inflight # << >>
  /\ Head(inflight).op = "importKey"
  /\ inflight' = Tail(inflight)
  /\ passwordKey' = CryptoKey(Head(inflight).password)
  /\ keyParams' = <<Head(inflight).saltSize, Head(inflight).ivSize>>
  /\ trace' = [op |-> "setPasswordSettle", error |-> ""]
  /\ UNCHANGED <<config, saltSize, ivSize, emptyIvAccepted, hookVars,
                 keyNamespace, storeVars, watchVars, pending, unwatched>>

\* SecureStorage with setPassword calls that take time to import the key
NextPassword ==
  \/ \E password \in Passwords, newSaltSize \in SaltSizes,
        newIvSize \in IvSizes :
       SetPasswordBegin(password, newSaltSize, newIvSize)
  \/ SetPasswordSettle
  \/ \E rawData \in RawDatas, salt \in getRandomValues(saltSize),
        iv \in getRandomValues(ivSize) :
       Encrypt(rawData, salt, iv)
  \/ \E boxBase64 \in BoxTexts : Decrypt(boxBase64)
  \/ \E key \in SecureKeys, rawValue \in SecureValues,
        salt \in getRandomValues(saltSize), iv \in getRandomValues(ivSize) :
       SecureSet(key, rawValue, salt, iv)
  \/ \E key \in SecureKeys : SecureGet(key)

SpecPassword == InitSecure /\ [][NextPassword]_vars

\* ------------------------------- change events of a SecureStorage instance

\* most change events waiting for crypto.subtle at a time
MaxDecoding == 2

\* the values a change of a watched key carries: none, a text another
\* writer left, or an envelope made with the current password and sizes
Envelopes ==
  {box.value : box \in {b \in {encrypt(rawData, salt, iv) :
                                   rawData \in RawDatas,
                                   salt \in getRandomValues(saltSize),
                                   iv \in getRandomValues(ivSize)} :
                          b.error = ""}}
SecureRaws == {Undefined} \cup ForeignValues \cup Envelopes
SecureChangeSets ==
  {(nsKey :> change) :
     nsKey \in Keys,
     change \in {c \in [newValue : SecureRaws, oldValue : SecureRaws] :
                   c.newValue # c.oldValue}}

\* whether parseValue(boxBase64) of SecureStorage waits for crypto.subtle:
\* not for undefined, not when the passwordKey getter throws, and not when
\* atob throws; all of these end before the first await of decrypt
awaitsCrypto(boxBase64) ==
  /\ boxBase64 # Undefined
  /\ passwordKey # Undefined
  /\ boxBase64.t = "base64"

\* the events of one key among the first n waiting ones
earlierOf(queue, n, nsKey) ==
  Cardinality({i \in 1..n : queue[i].nsKey = nsKey})

\* the platform emits a change event to a SecureStorage instance: the
\* listener of the key starts to decode both values.  When neither decode
\* waits for crypto.subtle the callbacks are called before anything else
\* runs; else the event waits for its decryption
DeliverSecure(changes, areaName) ==
  /\ hasExt
  /\ LET nsKey == CHOOSE k \in DOMAIN changes : TRUE
         ran == [l \in DOMAIN onChanged |->
                   chromeStorageListener(onChanged[l], changes, areaName)]
         queued == {l \in DOMAIN onChanged : ran[l] = "queued"}
         change == changes[nsKey]
         waits == awaitsCrypto(change.newValue) \/ awaitsCrypto(change.oldValue)
         event == [op |-> "event", nsKey |-> nsKey, areaName |-> areaName,
                   comms |-> watchMap[nsKey].callbackSet,
                   newValue |-> parseValueSecure(change.newValue),
                   oldValue |-> parseValueSecure(change.oldValue)]
     IN  /\ queued # {}
         /\ waits => Len(inflight) < MaxDecoding
         /\ inflight' = IF waits THEN Append(inflight, event) ELSE inflight
         /\ trace' =
              IF waits THEN [op |-> "deliverSecure", nsKey |-> nsKey]
              ELSE [op |-> "dispatchSecure", nsKey |-> nsKey,
                    newValue |-> event.newValue, oldValue |-> event.oldValue,
                    invoked |-> callbackSets[event.comms],
                    waited |-> FALSE,
                    earlier |-> earlierOf(inflight, Len(inflight), nsKey)]
  /\ UNCHANGED <<config, secureVars, hookVars, keyNamespace, storeVars,
                 watchVars, pending, unwatched>>

\* the decryption of the oldest waiting event ends: the .then of its
\* listener calls every callback in the Set of the key
DispatchSecure ==
  /\ inflight # << >>
  /\ Head(inflight).op = "event"
  /\ LET event == Head(inflight)
     IN  /\ inflight' = Tail(inflight)
         /\ trace' = [op |-> "dispatchSecure", nsKey |-> event.nsKey,
                      newValue |-> event.newValue,
                      oldValue |-> event.oldValue,
                      invoked |-> callbackSets[event.comms],
                      waited |-> TRUE,
                      earlier |-> earlierOf(inflight, 0, event.nsKey)]
  /\ UNCHANGED <<config, secureVars, hookVars, keyNamespace, storeVars,
                 watchVars, pending, unwatched>>

\* the state after new SecureStorage() on a platform that encrypts with the
\* iv the sizes give
InitOrder ==
  /\ area = "sync"
  /\ hasExt = TRUE
  /\ hasWebApi = TRUE
  /\ allCopied = FALSE
  /\ copiedKeySet = {}
  /\ secondaryClient = FALSE
  /\ secretSet = {}
  /\ unlimited = FALSE
  /\ shouldCheckQuota = FALSE
  /\ quotaBytes = 0
  /\ inflight = << >>
  /\ passwordKey = Undefined
  /\ saltSize = 0
  /\ ivSize = 0
  /\ emptyIvAccepted = TRUE
  /\ keyParams = << >>
  /\ isMounted = FALSE
  /\ onInit = "static"
  /\ hookKey = << >>
  /\ renderValue = Undefined
  /\ watchConfig = EmptyMap
  /\ memoKey = << >>
  /\ getting = << >>
  /\ persisting = << >>
  /\ hookEvents = << >>
  /\ keyNamespace = << >>
  /\ primary = EmptyMap
  /\ secondary = EmptyMap
  /\ written = EmptyMap
  /\ writer = EmptyMap
  /\ watchMap = EmptyMap
  /\ callbackSets = EmptyMap
  /\ onChanged = EmptyMap
  /\ pending = EmptyMap
  /\ unwatched = {}
  /\ trace = [op |-> "new"]

\* a watching SecureStorage instance and the platform's change events
NextOrder ==
  \/ \E password \in Passwords, newSaltSize \in SaltSizes,
        newIvSize \in IvSizes :
       SetPassword(password, newSaltSize, newIvSize)
  \/ \E callbackMap \in CallbackMaps : Watch(callbackMap)
  \/ \E changes \in SecureChangeSets, areaName \in Areas :
       DeliverSecure(changes, areaName)
  \/ DispatchSecure

SpecOrder == InitOrder /\ [][NextOrder]_vars

\* ------------------------------------------------------ useStorage hook

\* most persistValue calls waiting for their write, and most change events
\* on their way
MaxPersisting == 1
MaxHookEvents == 1

\* the keys the hook is rendered with, its static onInit, and the setters
\* persistValue is called with: a value, and a function of the old value
HookKeys == {<<"k">>, <<"j">>}
InitValue == Str(<<"i">>)
Setters == {"a", "flip"}
\* the callback of the hook's watchConfig, and what another component of
\* the same instance watches with
HookCallback == "cb1"
OtherCallbackMaps == {(<<"k">> :> "cb2")}

\* setter instanceof Function ? setter(renderValue) : setter
isFunction(setter) == setter = "flip"
applySetter(setter, oldValue) ==
  IF isFunction(setter)
    THEN (IF oldValue = Str(<<"a">>) THEN InitValue ELSE Str(<<"a">>))
    ELSE Str(<<"a">>)

\* setRenderValue(v): a changed state renders the component again, and the
\* callbacks memoized on renderValue then close over the key of that render
setRenderValue(v) ==
  /\ renderValue' = v
  /\ memoKey' = IF v # renderValue THEN hookKey ELSE memoKey

\* onInit is a value, or a function of the stored value that keeps it and
\* gives InitValue when there is none
OnInits == {"static", "function"}
applyOnInit(v) == IF v = Undefined THEN InitValue ELSE v

\* setStoreValue(newValue) as persistValue calls it: set(key, newValue) of
\* the instance; the primary client may reject the write, and announces a
\* changed entry to the listeners installed
setStoreValue(key, newValue, rawValue, rejects) ==
  LET nsKey == getNamespacedKey(key)
      value == serializer(rawValue)
      b == rawSet(Backends, nsKey, value)
      notified == /\ hasExt
                  /\ ~rejects
                  /\ Lookup(primary, nsKey) # value
                  /\ \E l \in DOMAIN onChanged : onChanged[l] = nsKey
  IN  /\ Len(persisting) < MaxPersisting
      /\ rejects => hasExt
      /\ notified => Len(hookEvents) < MaxHookEvents
      /\ secondary' = b.secondary
      /\ primary' = IF rejects THEN primary ELSE b.primary
      /\ UNCHANGED <<written, writer>>
      /\ persisting' = IF rejects THEN persisting
                       ELSE Append(persisting, newValue)
      /\ hookEvents' =
           IF notified
             THEN Append(hookEvents,
                         [nsKey |-> nsKey, newValue |-> value])
             ELSE hookEvents

\* the first render and the effect: watch(watchConfig), then get(key)
Mount(key, init) ==
  LET callbackMap == (key :> HookCallback)
      w == IF isWatchSupported THEN addListener(Current, callbackMap)
           ELSE Current
  IN  /\ ~isMounted
      /\ getting = << >>
      /\ persisting = << >>
      /\ Cardinality(DOMAIN w.onChanged) <= MaxListeners
      /\ isMounted' = TRUE
      /\ onInit' = init
      /\ hookKey' = key
      /\ memoKey' = key
      /\ renderValue' = InitValue
      /\ watchConfig' = callbackMap
      /\ getting' = <<key>>
      /\ pending' = pending
      /\ Install(w)
      /\ unwatched' = unwatched
      /\ trace' = [op |-> "mount", key |-> key, onInit |-> init]
      /\ UNCHANGED <<config, inflight, secureVars, keyNamespace, storeVars, persisting,
                     hookEvents>>

\* the .then of the effect's get(key): a static onInit is rendered when the
\* key holds nothing, the result of a function onInit is persisted with the
\* persistValue of the first render; neither looks at isMounted, and only a
\* mounted component renders again
GetSettle(rejects) ==
  /\ getting # << >>
  /\ LET key == Head(getting)
         got == rawGet(Backends, getNamespacedKey(key))
         v == parseValue(got.result)
         initValue == applyOnInit(v)
     IN  /\ getting' = Tail(getting)
         /\ IF onInit = "function"
              THEN /\ setStoreValue(key, initValue, initValue, rejects)
                   /\ UNCHANGED <<renderValue, memoKey>>
                   /\ trace' = [op |-> "getSettle", key |-> key,
                                returned |-> v, onInit |-> onInit,
                                setKey |-> key, setValue |-> initValue,
                                rejected |-> rejects, rendered |-> FALSE,
                                mounted |-> isMounted]
              ELSE /\ ~rejects
                   /\ renderValue' = IF v # Undefined THEN v ELSE InitValue
                   /\ memoKey' = IF isMounted /\ renderValue' # renderValue
                                   THEN hookKey ELSE memoKey
                   /\ UNCHANGED <<storeVars, persisting, hookEvents>>
                   /\ trace' = [op |-> "getSettle", key |-> key,
                                returned |-> v, onInit |-> onInit,
                                setKey |-> << >>, setValue |-> Undefined,
                                rejected |-> FALSE, rendered |-> TRUE,
                                mounted |-> isMounted]
  /\ UNCHANGED <<config, inflight, secureVars, keyNamespace, watchVars, pending,
                 unwatched, isMounted, onInit, hookKey, watchConfig>>

\* a render with another key: the effect has no dependencies and does not
\* run again, and the memoized callbacks are kept
Rerender(key) ==
  /\ isMounted
  /\ key # hookKey
  /\ hookKey' = key
  /\ trace' = [op |-> "rerender", key |-> key]
  /\ UNCHANGED <<config, inflight, secureVars, keyNamespace, storeVars, watchVars,
                 pending, unwatched, isMounted, onInit, renderValue,
                 watchConfig, memoKey, getting, persisting, hookEvents>>

\* persistValue(setter) up to its await
Persist(setter, rejects) ==
  LET newValue == applySetter(setter, renderValue)
      rawValue == IF newValue # Undefined THEN newValue ELSE renderValue
  IN  /\ isMounted
      /\ setStoreValue(memoKey, newValue, rawValue, rejects)
      /\ trace' = [op |-> "persist", setter |-> setter,
                   setKey |-> memoKey, setValue |-> rawValue,
                   newValue |-> newValue, rejected |-> rejects]
      /\ UNCHANGED <<config, inflight, secureVars, keyNamespace, watchVars, pending,
                     unwatched, isMounted, onInit, hookKey, renderValue,
                     watchConfig, memoKey, getting>>

\* persistValue after its await: the render state follows when mounted
PersistSettle ==
  /\ persisting # << >>
  /\ persisting' = Tail(persisting)
  /\ setRenderValue(IF isMounted THEN Head(persisting) ELSE renderValue)
  /\ trace' = [op |-> "persistSettle", newValue |-> Head(persisting),
               mounted |-> isMounted]
  /\ UNCHANGED <<config, inflight, secureVars, keyNamespace, storeVars, watchVars,
                 pending, unwatched, isMounted, onInit, hookKey,
                 watchConfig, getting, hookEvents>>

\* a change event reaches the listener of its key, which calls the
\* callbacks of the key; the hook's sets the render state when mounted
HookDispatch ==
  /\ hookEvents # << >>
  /\ LET e == Head(hookEvents)
         invoked == IF e.nsKey \in DOMAIN watchMap
                      THEN callbackSets[watchMap[e.nsKey].callbackSet]
                      ELSE {}
         called == HookCallback \in invoked
     IN  /\ hookEvents' = Tail(hookEvents)
         /\ setRenderValue(IF called /\ isMounted
                             THEN parseValue(e.newValue) ELSE renderValue)
         /\ trace' = [op |-> "hookDispatch", nsKey |-> e.nsKey,
                      called |-> called]
  /\ UNCHANGED <<config, inflight, secureVars, keyNamespace, storeVars, watchVars,
                 pending, unwatched, isMounted, onInit, hookKey,
                 watchConfig, getting, persisting>>

UnmountKeepsWatch ==
  /\ isMounted
  /\ isMounted' = FALSE
  /\ watchConfig' = EmptyMap
  /\ trace' = [op |-> "unmount", watchConfig |-> watchConfig,
               only |-> Emptied(watchConfig) # {}]
  /\ UNCHANGED <<config, inflight, secureVars, keyNamespace, storeVars, watchVars,
                 pending, unwatched, onInit, hookKey, renderValue, memoKey,
                 getting, persisting, hookEvents>>

\* the effect's cleanup: unwatch(watchConfig)
Unmount ==
  LET w == IF isWatchSupported THEN removeListener(Current, watchConfig)
           ELSE Current
  IN  /\ isMounted
      /\ isMounted' = FALSE
      /\ watchConfig' = EmptyMap
      /\ pending' = pending
      /\ Install(w)
      /\ unwatched' = unwatched
      /\ trace' = [op |-> "unmount", watchConfig |-> watchConfig,
                   only |-> Emptied(watchConfig) # {}]
      /\ UNCHANGED <<config, inflight, secureVars, keyNamespace, storeVars, onInit,
                     hookKey, renderValue, memoKey, getting, persisting,
                     hookEvents>>

\* the state after new Storage({ allCopied }), before the hook is rendered
InitHook ==
  /\ area = "sync"
  /\ hasExt \in BOOLEAN
  /\ hasWebApi = TRUE
  /\ allCopied \in BOOLEAN
  /\ copiedKeySet = {}
  /\ secondaryClient = (hasWebApi /\ allCopied)
  /\ secretSet = {}
  /\ unlimited = FALSE
  /\ shouldCheckQuota = FALSE
  /\ NoOverlay
  /\ keyNamespace = << >>
  /\ primary = EmptyMap
  /\ secondary = EmptyMap
  /\ written = EmptyMap
  /\ writer = EmptyMap
  /\ watchMap = EmptyMap
  /\ callbackSets = EmptyMap
  /\ onChanged = EmptyMap
  /\ pending = EmptyMap
  /\ unwatched = {}
  /\ trace = [op |-> "new"]

\* a component using the hook on an instance another component watches
NextHook ==
  \/ \E key \in HookKeys, init \in OnInits : Mount(key, init)
  \/ \E rejects \in BOOLEAN : GetSettle(rejects)
  \/ \E key \in HookKeys : Rerender(key)
  \/ \E setter \in Setters, rejects \in BOOLEAN : Persist(setter, rejects)
  \/ PersistSettle
  \/ HookDispatch
  \/ Unmount
  \/ \E callbackMap \in OtherCallbackMaps : Watch(callbackMap)
  \/ \E callbackMap \in OtherCallbackMaps : Unwatch(callbackMap)

SpecHook == InitHook /\ [][NextHook]_vars

\* ------------------------------------------------------------------ claims

ListenersFor(nsKey) == {l \in DOMAIN onChanged : onChanged[l] = nsKey}
Registered(nsKey) ==
  IF nsKey \in DOMAIN watchMap THEN callbackSets[watchMap[nsKey].callbackSet] ELSE {}

\* C1: after any sequence of watch, unwatch and unwatchAll calls the instance
\* has at most one listener installed per namespaced key, and a key has a
\* listener installed exactly when it has a non-empty callback set in the
\* watch map.
C1_OneListenerPerKey ==
  \A k \in AllNsKeys :
    /\ Cardinality(ListenersFor(k)) <= 1
    /\ ListenersFor(k) # {} <=> Registered(k) # {}

\* C2: for one change event on a key, every callback registered for the key
\* (from the event's arrival to its dispatch) is called exactly once, with the
\* decoded new and old value, and no callback that was never registered for
\* the key in that time is called.
C2_EachCallbackOnce ==
  trace.op = "dispatch" =>
    /\ trace.since \subseteq trace.invoked
    /\ \A c \in trace.invoked : trace.times[c] = 1
    /\ trace.invoked \subseteq trace.ever
    /\ trace.newValue = parseValue(trace.raw.newValue)
    /\ trace.oldValue = parseValue(trace.raw.oldValue)

\* C3: an unwatch call that removes the last callback of a key leaves no
\* listener installed for that key and no entry for it in the watch map; the
\* listener of every key that still has an entry stays installed.
C3_LastUnwatchRemovesListener ==
  [][/\ \A callbackMap \in CallbackMaps :
          Unwatch(callbackMap) /\ isWatchSupported =>
            \A k \in Emptied(callbackMap) :
              k \notin DOMAIN watchMap' /\ \A l \in DOMAIN onChanged' : onChanged'[l] # k
     /\ \A k \in DOMAIN watchMap' : watchMap'[k].listener \in DOMAIN onChanged'
    ]_vars

\* C4: unwatch with callbacks that are not, by identity, in their keys' sets
\* (or whose keys are not watched) returns normally and leaves the watch map,
\* every callback set and the installed listeners unchanged.
C4_MismatchedUnwatchIsNoOp ==
  [][\A callbackMap \in CallbackMaps :
       Unwatch(callbackMap) /\ Mismatch(callbackMap) =>
         /\ UNCHANGED <<watchMap, callbackSets, onChanged>>
         /\ trace'.returned = isWatchSupported
    ]_vars

C4_Witness ==
  /\ trace.op = "unwatch" /\ trace.returned /\ trace.mismatch
  /\ \E k \in DOMAIN watchMap : <<k, "cb1">> \in unwatched /\ Registered(k) = {"cb2"}

\* C5: after unwatchAll the watch map is empty and no listener this instance
\* installed remains installed.
C5_UnwatchAllRemovesEveryListener ==
  [][UnwatchAll => watchMap' = EmptyMap /\ onChanged' = EmptyMap]_vars

\* C6: a callback unwatched for a key before a change event on that key
\* arrived (and not registered again) is not called for the event, and the
\* callbacks registered for the key all the while are called.
C6_UnwatchedNotCalled ==
  trace.op = "dispatch" =>
    /\ trace.invoked \cap trace.excl = {}
    /\ trace.since \subseteq trace.invoked

C6_Witness ==
  /\ trace.op = "dispatch"
  /\ trace.excl = {"cb1"}
  /\ trace.invoked = {"cb2"}

\* C7: a change event of another area than the instance's queues no dispatch
\* and calls no callback, also when its change-set holds a watched key.
C7_OtherAreaIgnored ==
  /\ \A ev \in DOMAIN pending : pending[ev].areaName = area
  /\ trace.op = "dispatch" => trace.areaName = area
  /\ trace.op = "deliver" /\ trace.foreign => ~trace.queued

C7_Witness ==
  /\ trace.op = "deliver"
  /\ trace.foreign
  /\ trace.watched

\* the backend entry get(key), set(key) and remove(key) of the last step
\* address under the namespace in force
TraceNsKey == keyNamespace \o trace.key

\* a backend get(key) can read what set(key) wrote: the primary client
\* exists, or the entry is copied to an existing secondary client
Readable(nsKey) == hasExt \/ (secondaryClient /\ isCopied(nsKey))

\* C8: for every key k and every JSON-representable value v, on an instance
\* whose primary backend exists (or that mirrors the entry to the secondary
\* backend), after set(k, v) and with no other write to the entry of k in
\* between, get(k) under the same namespace returns a value equal to v.
C8_RoundTrip ==
  (/\ trace.op = "get"
   /\ TraceNsKey \in DOMAIN written
   /\ JSONRepresentable(written[TraceNsKey])
   /\ Readable(TraceNsKey))
  => trace.returned = written[TraceNsKey]

C8_Witness ==
  /\ trace.op = "get"
  /\ keyNamespace = <<"n">>
  /\ trace.key = <<"k">>
  /\ Readable(TraceNsKey)
  /\ TraceNsKey \in DOMAIN written
  /\ written[TraceNsKey] = Str(<<"a">>)
  /\ trace.returned = Str(<<"a">>)

\* C8 as stated: for every key k and every value v, after set(k, v) and with
\* no other write to k in between, get(k) returns a value equal to v.
C8_RoundTripEveryValue ==
  (trace.op = "get" /\ TraceNsKey \in DOMAIN written)
  => trace.returned = written[TraceNsKey]

\* C9: on an instance with namespace ns, every backend call of set(k, v),
\* get(k) and remove(k) names exactly the key ns+k; set hands the backend
\* exactly {ns+k: serialize(v)} and leaves that entry in the primary backend,
\* and remove leaves no entry ns+k there.
C9_BackendSeesNamespacedKey ==
  /\ trace.op \in {"set", "get", "remove"} =>
       \A i \in 1..Len(trace.log) : trace.log[i].keys = {TraceNsKey}
  /\ trace.op = "set" =>
       /\ \A i \in 1..Len(trace.log) :
            trace.log[i].items = (TraceNsKey :> serializer(trace.value))
       /\ hasExt => /\ TraceNsKey \in DOMAIN primary
                    /\ primary[TraceNsKey] = serializer(trace.value)
  /\ trace.op = "remove" /\ hasExt => TraceNsKey \notin DOMAIN primary

C9_Witness ==
  /\ trace.op = "set"
  /\ keyNamespace = <<"n">>
  /\ trace.key = <<"k">>
  /\ Len(trace.log) = 2
  /\ <<"k">> \notin DOMAIN primary
  /\ TraceNsKey \in DOMAIN primary

\* C10: after set(k, v) under namespace ns, getAll() maps the un-namespaced
\* key k to the value v itself, as get(k) returns it, not to its serialized
\* string.
C10_GetAllDecodes ==
  (trace.op = "getAll" /\ ~trace.threw) =>
    \A key \in StoreKeys :
      (/\ (keyNamespace \o key) \in DOMAIN written
       /\ JSONRepresentable(written[keyNamespace \o key]))
      => /\ key \in DOMAIN trace.returned
         /\ trace.returned[key] = written[keyNamespace \o key]

\* one string starts with the other
IsPrefix(a, b) == Len(a) <= Len(b) /\ SubSeq(b, 1, Len(a)) = a

\* C11: for two instances sharing one area whose namespace strings are such
\* that neither is a prefix of the other, getAll() on one never returns an
\* entry set through the other; every key getAll() returns is the key of a
\* backend entry that starts with the instance's namespace, with exactly
\* that prefix removed, and carries that entry's stored string.
C11_GetAllStaysInNamespace ==
  (trace.op = "getAll" /\ ~trace.threw) =>
    \A key \in DOMAIN trace.returned :
      LET nsKey == keyNamespace \o key
      IN  /\ nsKey \in DOMAIN primary
          /\ trace.returned[key] = primary[nsKey]
          /\ nsKey \in DOMAIN writer =>
               \/ IsPrefix(writer[nsKey], keyNamespace)
               \/ IsPrefix(keyNamespace, writer[nsKey])

C11_Witness ==
  /\ trace.op = "getAll"
  /\ keyNamespace = <<"n">>
  /\ DOMAIN trace.returned = {<<"k">>}
  /\ <<"m", "k">> \in DOMAIN primary
  /\ writer[<<"m", "k">>] = <<"m">>
  /\ writer[<<"n", "k">>] = <<"n">>

\* C11 as stated: for any two instances with different namespace strings,
\* getAll() on one never returns an entry set through the other.
C11_GetAllOnlyOwnEntries ==
  (trace.op = "getAll" /\ ~trace.threw) =>
    \A key \in DOMAIN trace.returned :
      (keyNamespace \o key) \in DOMAIN writer =>
        writer[keyNamespace \o key] = keyNamespace

\* the entry of a backend under a key, or that it has none
EntryOf(backend, nsKey) == Lookup(backend, nsKey)

\* C12: removeAll() removes every entry of the primary backend whose key
\* starts with the instance's namespace, together with its copy in the
\* secondary backend, and leaves every entry of either backend whose key does
\* not start with the instance's namespace unchanged.
C12_RemoveAllKeepsOtherKeys ==
  [][RemoveAll =>
       /\ \A nsKey \in DOMAIN primary :
            IsPrefix(keyNamespace, nsKey) =>
              nsKey \notin (DOMAIN primary') \cup (DOMAIN secondary')
       /\ \A nsKey \in (DOMAIN primary) \cup (DOMAIN secondary) :
            ~IsPrefix(keyNamespace, nsKey) =>
              /\ EntryOf(primary', nsKey) = EntryOf(primary, nsKey)
              /\ EntryOf(secondary', nsKey) = EntryOf(secondary, nsKey)]_vars

C12_Witness ==
  /\ trace.op = "removeAll"
  /\ ~trace.threw
  /\ keyNamespace = <<"n">>
  /\ Len(trace.log) = 3
  /\ trace.log[3].keys = {<<"n", "k">>}
  /\ <<"n", "k">> \notin DOMAIN primary
  /\ <<"m", "k">> \in DOMAIN primary
  /\ <<"m", "k">> \in DOMAIN secondary

\* C12 as stated: removeAll() leaves every backend entry that was set through
\* an instance of a different namespace unchanged.
C12_RemoveAllKeepsOtherInstances ==
  [][RemoveAll =>
       \A nsKey \in DOMAIN writer :
         writer[nsKey] # keyNamespace =>
           /\ EntryOf(primary', nsKey) = EntryOf(primary, nsKey)
           /\ EntryOf(secondary', nsKey) = EntryOf(secondary, nsKey)]_vars

\* the calls of a log made on the primary client
PrimaryCalls(log) == {i \in 1..Len(log) : log[i].client = "primary"}

Covered(key) == hasWebApi /\ (allCopied \/ key \in copiedKeySet)

\* what a step that removes keys leaves behind
Removed(keys) ==
  LET nsKeys == {keyNamespace \o key : key \in keys}
  IN  /\ \A key \in keys :
           /\ (keyNamespace \o key) \notin DOMAIN primary'
           /\ Covered(key) => (keyNamespace \o key) \notin DOMAIN secondary'
      /\ \A nsKey \in ((DOMAIN primary) \cup (DOMAIN secondary)) \ nsKeys :
           /\ EntryOf(primary', nsKey) = EntryOf(primary, nsKey)
           /\ EntryOf(secondary', nsKey) = EntryOf(secondary, nsKey)

\* C14: after remove(k) or removeMany(keys) each removed key has no entry in
\* the primary backend and, when the mirror policy covers the key, none in
\* the secondary backend; the entries of the keys the call does not name are
\* unchanged in both backends.
C14_RemoveRemovesNamedKeysOnly ==
  [][/\ trace'.op = "remove" => Removed({trace'.key})
     /\ trace'.op = "removeMany" => Removed(trace'.keys)]_vars

C14_Witness ==
  /\ trace.op = "removeMany"
  /\ trace.keys = StoreKeys
  /\ keyNamespace = <<"n">>
  /\ Len(trace.log) = 3
  /\ <<"k">> \in (DOMAIN primary) \cap (DOMAIN secondary)
  /\ <<"n", "k">> \notin (DOMAIN primary) \cup (DOMAIN secondary)

\* the calls of a log made on the secondary client
SecondaryCalls(log) == {i \in 1..Len(log) : log[i].client = "secondary"}

\* C15: set(k, v) writes the serialized value to the secondary backend if
\* and only if the mirror policy covers k (every key is mirrored, or k is in
\* the allow-list), under every namespace of the instance.
C15_SetMirrorsExactlyCoveredKeys ==
  trace.op = "set" =>
    /\ SecondaryCalls(trace.log) # {} <=> Covered(trace.key)
    /\ \A i \in SecondaryCalls(trace.log) :
         /\ trace.log[i].method = "setItem"
         /\ trace.log[i].items =
              ((keyNamespace \o trace.key) :> serializer(trace.value))

Threw(t) == "threw" \in DOMAIN t /\ t.threw

\* C17: when the primary backend is unavailable, every public operation
\* completes without raising an error.
C17_NoErrorWithoutPrimary == ~hasExt => ~Threw(trace)

\* C18: when the raw value stored for a key is not decodable by the codec,
\* get returns undefined, and getMany returns undefined for that key, and
\* neither raises an error.
C18_UndecodableReadsUndefined ==
  /\ (/\ trace.op = "get"
      /\ hasExt
      /\ EntryOf(primary, keyNamespace \o trace.key) \in ForeignValues)
     => trace.returned = Undefined /\ ~Threw(trace)
  /\ (trace.op = "getMany" /\ hasExt) =>
       \A key \in trace.keys :
         EntryOf(primary, keyNamespace \o key) \in ForeignValues =>
           /\ key \in DOMAIN trace.returned
           /\ trace.returned[key] = Undefined
           /\ ~Threw(trace)

C18_Witness ==
  /\ trace.op = "getMany"
  /\ trace.keys = StoreKeys
  /\ keyNamespace = << >>
  /\ EntryOf(primary, <<"k">>) \in ForeignValues
  /\ DOMAIN trace.returned = StoreKeys
  /\ trace.returned[<<"k">>] = Undefined
  /\ trace.returned[<<"n", "k">>] = Str(<<"a">>)

\* C19: with the quota check active (extension API present, area not
\* "managed"), set(k, v) projects bytesInUse - bytes(old entry of k) +
\* bytes(serialized v) and: writes without a warning when the projection is
\* at most 80% of the quota, exactly 80% included; writes and returns a
\* warning when it is above 80% and at most 100%; rejects without writing to
\* the primary backend when it is above 100%.
C19_QuotaThresholds ==
  trace.op = "setWithQuota" =>
    LET quota == IF trace.QUOTA_BYTES = 0 THEN 1 ELSE trace.QUOTA_BYTES
        projected == trace.byteInUse - trace.oldValueByteSize
                       + Len(serializer(trace.value).v)
        wrote == PrimaryCalls(trace.log) # {}
    IN  /\ trace.checked <=> (hasExt /\ area # "managed")
        /\ trace.checked =>
             /\ 5 * projected <= 4 * quota =>
                  ~trace.warning /\ ~trace.rejected /\ wrote
             /\ (5 * projected > 4 * quota /\ projected <= quota) =>
                  trace.warning /\ ~trace.rejected /\ wrote
             /\ projected > quota => trace.rejected /\ ~wrote

C19_Witness ==
  /\ trace.op = "setWithQuota"
  /\ trace.checked
  /\ trace.QUOTA_BYTES = 10
  /\ trace.byteInUse - trace.oldValueByteSize
       + Len(serializer(trace.value).v) = 8
  /\ ~trace.warning
  /\ PrimaryCalls(trace.log) # {}

\* C20: when set(k, v) is rejected because the projection exceeds the quota,
\* the stored entries are unmodified: the primary backend's entry of k and
\* the secondary backend's copy of k are as before the call.
C20_RejectedSetWritesNothing ==
  [][(trace'.op = "setWithQuota" /\ trace'.rejected) =>
       /\ primary' = primary
       /\ secondary' = secondary]_vars

\* C21: the quota check is skipped exactly when the store was constructed
\* with unlimited = true: such a store's set asks for no quota verdict and
\* neither warns nor rejects, and a store constructed with unlimited = false
\* has every set on the primary backend checked.
C21_UnlimitedSkipsQuotaCheck ==
  (trace.op = "setUnlimited" /\ hasExt) =>
    /\ trace.checked <=> ~unlimited
    /\ unlimited => ~trace.warning /\ ~trace.rejected

\* C22: where both backends exist, copy(k) for a key k of the copied key
\* list leaves the secondary backend holding the primary backend's value for
\* k, copy() does so for every mirrored key, and no copy changes the primary
\* backend.
C22_CopyRefreshesMirror ==
  [][(trace'.op = "copy" /\ hasExt /\ secondaryClient) =>
       /\ primary' = primary
       /\ \A key \in (IF trace'.arg = {} THEN StoreKeys ELSE trace'.arg) :
            (key \in copiedKeySet \/ (trace'.arg = {} /\ allCopied)) =>
              EntryOf(secondary', getNamespacedKey(key))
                = EntryOf(primary, getNamespacedKey(key))]_vars

\* C23: copy returns true exactly when it changed a value the secondary
\* backend holds, and false when every value copied was already there and
\* when nothing was copied.
C23_CopyTellsWhetherChanged ==
  [][trace'.op = "copy" =>
       (trace'.returned <=> secondary' # secondary)]_vars

\* C24: clear() leaves the primary backend's area without any entry, those
\* of other namespaces included, and leaves the secondary backend as it was;
\* clear(true) leaves the secondary backend empty as well.
C24_ClearEmptiesArea ==
  [][trace'.op = "clear" =>
       /\ primary' = EmptyMap
       /\ trace'.includeCopies => secondary' = EmptyMap
       /\ ~trace'.includeCopies => secondary' = secondary]_vars

\* clear() was called under the namespace "n" on an area holding an entry of
\* the empty namespace, with a copy in the secondary backend
C24_Witness ==
  /\ trace.op = "clear"
  /\ ~trace.includeCopies
  /\ ~trace.threw
  /\ \E nsKey \in trace.cleared : ~isValidKey(nsKey)
  /\ primary = EmptyMap
  /\ secondary # EmptyMap

\* C25: once setPassword has completed, under a platform whose cipher takes
\* the iv, encrypt(x) resolves and decrypt of what it resolved to, under the
\* same password and sizes, is x.
C25_DecryptInvertsEncrypt ==
  (/\ trace.op = "encrypt"
   /\ passwordKey # Undefined
   /\ ivSize = 0 => emptyIvAccepted) =>
    /\ trace.error = ""
    /\ decrypt(trace.returned) = Resolved(Str(trace.rawData))

\* the calls of a log that write a backend
Writes(log) ==
  {i \in 1..Len(log) : log[i].method \in {"set", "setItem"}}

\* C26: while no setPassword has completed, encrypt, decrypt, get and set
\* each fail with the password-not-set error and write to no backend.
C26_NoCryptoBeforePassword ==
  (/\ passwordKey = Undefined
   /\ trace.op \in {"encrypt", "decrypt", "secureGet", "secureSet"}) =>
    /\ trace.error = "PasswordNotSet"
    /\ Writes(trace.log) = {}

\* C27: every value SecureStorage.set hands to the primary or the secondary
\* backend is an envelope, one that decrypt opens to the serialized value,
\* and never the serialized value itself.
C27_SetWritesEnvelopesOnly ==
  trace.op = "secureSet" =>
    \A i \in Writes(trace.log) :
      \A key \in DOMAIN trace.log[i].items :
        LET item == trace.log[i].items[key]
        IN  /\ item.t = "base64"
            /\ item # JSONstringify(trace.value)
            /\ decrypt(item) = Resolved(JSONstringify(trace.value))

\* a set that resolved and wrote both backends
C27_Witness ==
  /\ trace.op = "secureSet"
  /\ trace.error = ""
  /\ \E i \in Writes(trace.log) : trace.log[i].client = "primary"
  /\ \E i \in Writes(trace.log) : trace.log[i].client = "secondary"
  /\ EntryOf(primary, trace.key).t = "base64"
  /\ EntryOf(secondary, trace.key) = EntryOf(primary, trace.key)

\* the hook's callback is in the Set of the given key's watch-map entry
HookWatches(wm, sets, nsKey) ==
  nsKey \in DOMAIN wm /\ HookCallback \in sets[wm[nsKey].callbackSet]

\* the hook's callback is the only one the key has had
OnlyWatcher(nsKey) ==
  /\ HookWatches(watchMap, callbackSets, nsKey)
  /\ callbackSets[watchMap[nsKey].callbackSet] = {HookCallback}
  /\ \A c \in Callbacks \ {HookCallback} : <<nsKey, c>> \notin unwatched

C29_PersistWritesSetterResult ==
  [][/\ (trace'.op = "persist" /\ isFunction(trace'.setter)) =>
          /\ trace'.setKey = hookKey
          /\ trace'.setValue = applySetter(trace'.setter, renderValue)
          /\ renderValue' = renderValue
          /\ trace'.rejected => persisting' = persisting
     /\ (trace'.op = "persistSettle" /\ isMounted) =>
          renderValue' = trace'.newValue]_vars

\* C30: a render with a different key reads the new key from storage, and
\* every later write through the hook goes to the key of the latest render.
C30_RerenderFollowsKey ==
  [][/\ trace'.op = "rerender" =>
          (getting' # << >> /\ getting'[Len(getting')] = hookKey')
     /\ trace'.op = "persist" => trace'.setKey = hookKey]_vars

\* what the key holds in the backend get reads, decoded; Undefined for none
StoredValue(key) ==
  LET nsKey == getNamespacedKey(key)
  IN  IF hasExt THEN parseValue(Lookup(primary, nsKey))
      ELSE IF isCopied(nsKey) /\ secondaryClient
        THEN parseValue(Lookup(secondary, nsKey))
      ELSE Undefined

\* C31: mounting issues one read of the hook's key. When the read settles
\* on a mounted hook with a static onInit, the render value becomes the
\* stored value if the key holds one and onInit if not, and no backend is
\* written; with a function onInit, its result for the stored value is
\* written under the key and waits to be rendered when the write settles.
C31_HydratesFromStorage ==
  [][/\ trace'.op = "mount" => getting' = <<hookKey'>>
     /\ (trace'.op = "getSettle" /\ isMounted /\ onInit = "static") =>
          /\ renderValue' = IF StoredValue(trace'.key) # Undefined
                              THEN StoredValue(trace'.key) ELSE InitValue
          /\ UNCHANGED <<primary, secondary>>
          /\ getting' = << >>
     /\ (trace'.op = "getSettle" /\ isMounted /\ onInit = "function"
           /\ ~trace'.rejected) =>
          /\ trace'.setKey = trace'.key
          /\ trace'.setValue = applyOnInit(StoredValue(trace'.key))
          /\ persisting' =
               Append(persisting, applyOnInit(StoredValue(trace'.key)))
          /\ getting' = << >>]_vars

\* C40: once the component has unmounted, no step of the hook sets the
\* render value: no change notification, no persistValue call settling and
\* no initial read settling.
C40_NoRenderAfterUnmount ==
  [][(~isMounted /\ ~isMounted') => renderValue' = renderValue]_vars

\* C32: once a password is set, under a platform whose cipher takes the iv,
\* encrypt returns the base64 text of saltSize + ivSize + |ciphertext|
\* octets: the salt at offset 0, the iv at offset saltSize and the
\* ciphertext at offset saltSize + ivSize, where decrypt slices them.
C32_EnvelopeLayout ==
  (/\ trace.op = "encrypt"
   /\ passwordKey # Undefined
   /\ ivSize = 0 => emptyIvAccepted) =>
    /\ trace.error = ""
    /\ LET boxBuffer == base64ToU8(trace.returned)
           ciphertext == subtleEncrypt(trace.iv,
                                       deriveKey(trace.salt, passwordKey),
                                       encode(trace.rawData))
       IN  /\ Len(boxBuffer) = saltSize + ivSize + Len(ciphertext)
           /\ slice(boxBuffer, 0, saltSize) = trace.salt
           /\ slice(boxBuffer, saltSize, saltSize + ivSize) = trace.iv
           /\ slice(boxBuffer, saltSize + ivSize, Len(boxBuffer))
                = ciphertext

\* high and low surrogates, and strings whose surrogates all come in pairs
isHighSurrogate(c) == charCodeAt(c) >= 55296 /\ charCodeAt(c) <= 56319
isLowSurrogate(c) == charCodeAt(c) >= 56320 /\ charCodeAt(c) <= 57343
RECURSIVE WellFormed(_)
WellFormed(str) ==
  IF str = << >> THEN TRUE
  ELSE IF isHighSurrogate(str[1])
    THEN Len(str) >= 2 /\ isLowSurrogate(str[2])
         /\ WellFormed(Tail(Tail(str)))
  ELSE ~isLowSurrogate(str[1]) /\ WellFormed(Tail(str))

\* the length of the UTF-8 encoding of a well-formed string, code point by
\* code point from the front
RECURSIVE utf8Length(_)
utf8Length(str) ==
  IF str = << >> THEN 0
  ELSE IF isHighSurrogate(str[1]) THEN 4 + utf8Length(Tail(Tail(str)))
  ELSE (IF charCodeAt(str[1]) < 128 THEN 1
        ELSE IF charCodeAt(str[1]) < 2048 THEN 2 ELSE 3)
       + utf8Length(Tail(str))

\* C33: for every string whose surrogates all come in high-low pairs,
\* byteLengthCharCode returns the length of the string's UTF-8 encoding.
C33_ByteLengthIsUtf8Length ==
  (trace.op = "byteLengthCharCode" /\ WellFormed(trace.str)) =>
    trace.returned = utf8Length(trace.str)

\* a string with a surrogate pair and a two-byte code unit was measured
C33_Witness ==
  /\ trace.op = "byteLengthCharCode"
  /\ trace.str = <<"U+0080", "U+D800", "U+DC00">>
  /\ trace.returned = 6

\* the keys a log shows written to the secondary client
Mirrored(log) ==
  UNION {log[i].keys : i \in {j \in Writes(log) :
                                log[j].client = "secondary"}}

\* C34: setCopiedKeySet(L) makes the copied key set exactly L, and where
\* window.localStorage exists the next set(k, v) writes k to the secondary
\* backend exactly when k is in L, however the store was constructed.
C34_SetterReplacesMirrorList ==
  [][/\ trace'.op = "setCopiedKeySet" => copiedKeySet' = trace'.keyList
     /\ (trace.op = "setCopiedKeySet" /\ trace'.op = "set" /\ hasWebApi) =>
          Mirrored(trace'.log)
            = {getNamespacedKey(trace'.key)} \cap trace.keyList]_vars

\* C37: the dispatch of a change event that arrived before unwatchAll and
\* was still being decoded when unwatchAll ran calls no callback.
C37_NoCallAfterUnwatchAll ==
  (trace.op = "dispatch" /\ trace.cleared) => trace.invoked = {}

\* C35: on an area whose quota rejects no write, once no set is in flight
\* the primary and the secondary backend hold the same serialized value for
\* every mirrored key, or both hold none.
C35_BackendsAgreeWhenSettled ==
  (inflight = << >> /\ area # "managed" /\ quotaBytes = 100) =>
    \A key \in RaceKeys \ secretSet :
      Lookup(primary, key) = Lookup(secondary, key)

\* C36: with the quota check active, the bytes in use of the area never
\* exceed its quota, however the set calls interleave.
C36_NeverAboveQuota ==
  area # "managed" =>
    getBytesInUse(DOMAIN primary)
      <= (IF quotaBytes = 0 THEN 1 ELSE quotaBytes)

\* C38: whenever encrypt or decrypt runs with a password key, the salt size
\* and the iv size it works with are those of the setPassword call that
\* made the key.
C38_KeyAndSizesOfOneCall ==
  (trace.op \in {"encrypt", "decrypt"} /\ passwordKey # Undefined) =>
    keyParams = <<saltSize, ivSize>>

\* C39: when the callbacks of a key are called for a change event, no
\* event of that key the platform emitted earlier is still waiting to be
\* dispatched.
C39_EmissionOrderPerKey ==
  trace.op = "dispatchSecure" => trace.earlier = 0

====
